---- MODULE Spec2Model ----
(***************************************************************************)
(* Model of the akavelog input controller: the InputHandler of             *)
(* internal/handler/inputs.go, the input registry, the http input factory  *)
(* and instance of internal/infrastructure/inputs/httpinput, and the       *)
(* input repository.                                                       *)
(*                                                                         *)
(* Strings are tuples of one-character strings, so that the validation of  *)
(* listen addresses is computed character by character as the code does.   *)
(***************************************************************************)
EXTENDS Integers, Sequences, FiniteSets, TLC

(***************************************************************************)
(* Bounds of the model.                                                    *)
(***************************************************************************)
MaxInitRows == 1
MaxRestoreRows == 2
MaxReqs == 2
MaxIngest == 2
MaxEntries == 2
MaxStorageOps == 3
RecentCapacity == 2
DefaultMaxBatchSize == 2

Procs == {"p1", "p2"}
SeqProc == "p1"

(***************************************************************************)
(* Strings.                                                                *)
(***************************************************************************)
EmptyStr == <<>>
L1 == <<":", "1">>
L2 == <<":", "2">>
LNoColon == <<"h", "1">>
LTwoColons == <<"h", ":", "h", ":", "1">>
Blank == <<" ">>
Ingest == <<"/", "i", "n", "g", "e", "s", "t">>
TitleText == <<"t">>

Digits == {"1", "2"}

\* unicode.IsDigit
IsDigit(ch) == ch \in Digits

IsSpace(ch) == ch = " "

RECURSIVE TrimLeft(_)
TrimLeft(s) ==
  IF s = <<>> THEN s
  ELSE IF IsSpace(Head(s)) THEN TrimLeft(Tail(s)) ELSE s

RECURSIVE TrimRight(_)
TrimRight(s) ==
  IF s = <<>> THEN s
  ELSE IF IsSpace(s[Len(s)]) THEN TrimRight(SubSeq(s, 1, Len(s) - 1)) ELSE s

\* strings.TrimSpace
TrimSpace(s) == TrimRight(TrimLeft(s))

\* strings.LastIndex(addr, ":") as a 1-based position, 0 when absent
LastIndexColon(addr) ==
  LET pos == {i \in 1..Len(addr) : addr[i] = ":"}
  IN IF pos = {} THEN 0 ELSE CHOOSE i \in pos : \A j \in pos : j <= i

validListenAddr(addr) ==
  LET idx == LastIndexColon(addr)
      port == SubSeq(addr, idx + 1, Len(addr))
  IN /\ idx > 0
     /\ Len(port) > 0
     /\ Len(port) <= 5
     /\ \A i \in 1..Len(port) : IsDigit(port[i])

(***************************************************************************)
(* Configuration maps (inputs.Config): functions from the keys that are    *)
(* present to string values.                                               *)
(***************************************************************************)
EmptyCfg == [k \in {} |-> EmptyStr]

Has(cfg, k) == k \in DOMAIN cfg

\* cfg[k].(string) with the comma-ok form: "" when the key is absent
GetStr(cfg, k) == IF Has(cfg, k) THEN cfg[k] ELSE EmptyStr

\* cfg[k] = v
Put(cfg, k, v) == [x \in DOMAIN cfg \cup {k} |-> IF x = k THEN v ELSE cfg[x]]

\* json.Unmarshal(upd, &cfg) into an existing map: keys of upd overwrite
Merge(cfg, upd) ==
  [x \in DOMAIN cfg \cup DOMAIN upd |-> IF x \in DOMAIN upd THEN upd[x] ELSE cfg[x]]

(***************************************************************************)
(* Registry and http factory.                                              *)
(***************************************************************************)
Registered == {"http"}

FactoryValidateConfig(cfg) ==
  LET listen == TrimSpace(GetStr(cfg, "listen"))
  IN IF listen = EmptyStr THEN "listen is required"
     ELSE IF ~validListenAddr(listen) THEN "listen must be host:port"
     ELSE "ok"

ValidateConfig_RejectUnknown(typeName, cfg) ==
  IF typeName \notin Registered THEN "unknown input type" ELSE FactoryValidateConfig(cfg)

\* Registry.ValidateConfig: unknown types pass
ValidateConfig(typeName, cfg) ==
  IF typeName \notin Registered THEN "ok" ELSE FactoryValidateConfig(cfg)

\* Factory.Create: the error result, "ok" when an instance is returned
FactoryCreate(cfg) ==
  IF TrimSpace(GetStr(cfg, "listen")) = EmptyStr THEN "listen is required" ELSE "ok"

RegistryCreate_AnyFactory(name, cfg) ==
  FactoryCreate(cfg)

\* Registry.Create
RegistryCreate(name, cfg) ==
  IF name \notin Registered THEN "unknown input type" ELSE FactoryCreate(cfg)

(***************************************************************************)
(* State.                                                                  *)
(***************************************************************************)
VARIABLES
  store,        \* the inputs table: id -> row
  dbFaulty,     \* the database may fail a repository call
  dbErr,        \* history: the repository call that failed each caller last, or "ok"
  born,         \* history: id -> created_at the row was inserted with
  nextId,       \* next value of uuid.New()
  clock,        \* now() of the database
  Instances,    \* InputHandler.Instances: id -> index of the running instance
  InstancesMu,  \* InputHandler.InstancesMu: the holder, or Free
  unguarded,    \* history: some access to Instances was made without the mutex
  insts,        \* the httpinput.Input objects created so far
  phase,        \* "init", "restore" (server.New is running) or "serving"
  restoreList,  \* RestoreInputs: the rows still to visit
  pc,           \* position of each request handler
  req,          \* the request each handler is serving
  loc,          \* locals of each handler: in, cfg, run
  resp,         \* the last response of each handler
  nreq,         \* number of requests accepted so far
  bucket,       \* the object store: the bucket of the client is absent, mine or other's
  objects,      \* the object store: key -> the bytes stored under it, or NoObject
  sres,         \* the outcome of the last call on the O3Client
  epc,          \* O3Client.EnsureBucket: idle, or create after a failed HeadBucket
  nsop,         \* number of calls made on the O3Client
  batcherOn,    \* server.New: the object store is configured, the buffer is the batcher
  cfgMaxBatchSize, \* cfg.Batcher.MaxBatchSize, 0 when not configured
  logs,         \* memoryBuffer.logs
  bufMu,        \* memoryBuffer.mu: the holder, or Free
  queue,        \* Batcher: the payloads inserted and not yet taken
  hpc,          \* position of each ingest request in Input.Handler
  hreq,         \* the ingest request Input.Handler is working on, per connection
  hloc,         \* locals of Input.Handler: rawLogJSON, the Insert in progress
  hresp,        \* the status written to each connection, 0 when none yet
  nhreq,        \* number of ingest requests accepted so far
  nins,         \* history: number of Insert calls started so far
  bc,           \* BatcherConfig.MaxBatchSize the batcher was built with
  pending,      \* Batcher: the payloads inserted and not yet flushed
  upStatus,     \* UploadStatusStore: last_upload_count, last_upload_key, last_upload_at
  ring,         \* RecentLogsStore: the recent entries, oldest first
  added,        \* history: every entry passed to AddEntry, in order
  uploads,      \* history: the upload attempts, in order
  bpc,          \* position of the batcher's background task
  taken,        \* Batcher: the payloads taken from the queue and not yet batched
  batch,        \* Batcher: the entries of the batch being uploaded
  wake,         \* history: what woke the background task last
  stopping,     \* Batcher.Stop has been called
  atStop,       \* history: the Insert calls that had returned when Stop was called
  nbatch,       \* number of batch ids handed out so far
  mux,          \* http.ServeMux: the patterns registered by MountHTTPEndpoints
  mounted,      \* MountHTTPEndpoints: "no" before the call, then "ok" or its error
  mspecs,       \* history: the specs MountHTTPEndpoints was called with
  mreq          \* history: the last request each connection sent to the mux

batcherVars == <<bc, pending, upStatus, ring, added, uploads, bpc, taken, batch,
                 wake, stopping, atStop, nbatch>>

muxVars == <<mux, mounted, mspecs, mreq>>

storageVars == <<bucket, objects, sres, epc, nsop>>
ingestVars == <<batcherOn, cfgMaxBatchSize, logs, bufMu, queue, hpc, hreq, hloc, hresp,
                nhreq, nins, batcherVars, muxVars>>

vars == <<store, dbFaulty, dbErr, born, nextId, clock, Instances, InstancesMu, unguarded, insts,
          phase, restoreList, pc, req, loc, resp, nreq, ingestVars, storageVars>>

rowVars == <<store, born, nextId, clock>>
storeVars == <<rowVars, dbFaulty, dbErr>>
mapVars == <<Instances, InstancesMu, unguarded>>
restoreVars == <<phase, restoreList>>
procVars == <<pc, req, loc, resp, nreq>>

Free == "free"
Restorer == "restore"
\* titles: the text, and for a synthesized title the first 8 characters that follow it
NoTitle == [text |-> EmptyStr, first8 |-> 0]
GivenTitle(text) == [text |-> text, first8 |-> 0]

InputDash == <<"i", "n", "p", "u", "t", "-">>

\* uuid.String()[:8]: the uuids 2k-1 and 2k share their first 8 characters
First8(u) == (u + 1) \div 2

\* "input-" + uuid.New().String()[:8]
SynthTitle(u) == [text |-> InputDash, first8 |-> First8(u)]

NoRow == [id |-> 0, type |-> "", title |-> NoTitle, cfg |-> EmptyCfg, created_at |-> 0,
          desired_state |-> ""]
NoReq == [op |-> "none", type |-> "", title |-> EmptyStr, listen |-> EmptyStr,
          description |-> EmptyStr,
          config |-> EmptyCfg, id |-> 0]
NoViews == [k \in {} |-> ""]
NoLoc == [in |-> NoRow, title |-> NoTitle, cfg |-> EmptyCfg, run |-> 0, list |-> NoViews]
NoResp == [status |-> 0, id |-> 0, created_at |-> 0, views |-> NoViews]

EmptyMap == [k \in {} |-> 0]

(***************************************************************************)
(* The repository (InputRepository) over the inputs table.                 *)
(***************************************************************************)
RECURSIVE SortDesc(_, _)
SortDesc(st, ids) ==
  IF ids = {} THEN <<>>
  ELSE LET top == CHOOSE i \in ids : \A j \in ids : st[j].created_at <= st[i].created_at
       IN <<st[top]>> \o SortDesc(st, ids \ {top})

\* InputRepository.List: all rows, ORDER BY created_at DESC
RepoList(st) == SortDesc(st, DOMAIN st)

RepoGetByID_Stale(st, id) ==
  IF id \in DOMAIN st THEN st[id]
  ELSE [id |-> id, type |-> "http", title |-> NoTitle, cfg |-> Put(EmptyCfg, "listen", L1),
        created_at |-> 0, desired_state |-> "RUNNING"]

\* InputRepository.GetByID: the row or NoRow (nil)
RepoGetByID(st, id) == IF id \in DOMAIN st THEN st[id] ELSE NoRow

\* InputRepository.Create: INSERT ... RETURNING id, created_at
RepoCreate(st, row) == [k \in DOMAIN st \cup {row.id} |-> IF k = row.id THEN row ELSE st[k]]

RepoUpdate_TouchCreatedAt(st, row, now) ==
  [k \in DOMAIN st |->
     IF k = row.id
     THEN [st[k] EXCEPT !.type = row.type, !.title = row.title, !.cfg = row.cfg,
                        !.desired_state = row.desired_state, !.created_at = now]
     ELSE st[k]]

\* InputRepository.Update: UPDATE inputs SET type, title, configuration, desired_state WHERE id
RepoUpdate(st, row, now) ==
  [k \in DOMAIN st |->
     IF k = row.id
     THEN [st[k] EXCEPT !.type = row.type, !.title = row.title, !.cfg = row.cfg,
                        !.desired_state = row.desired_state]
     ELSE st[k]]

\* InputRepository.Delete: DELETE FROM inputs WHERE id
RepoDelete(st, id) == [k \in DOMAIN st \ {id} |-> st[k]]

\* the outcomes of a repository call: it may fail when the database is faulty
RepoFaults(called) == IF called /\ dbFaulty THEN BOOLEAN ELSE {FALSE}

\* caller who has called operation op of the repository, with or without error
RepoCall(who, op, fail) ==
  /\ dbErr' = [dbErr EXCEPT ![who] = IF fail THEN op ELSE "ok"]
  /\ UNCHANGED dbFaulty

(***************************************************************************)
(* The http input instance (httpinput.Input) and its listener.             *)
(***************************************************************************)
\* NewInput: the object before Start
NewInput(owner, listenAddr) ==
  [owner |-> owner, listenAddr |-> listenAddr, server |-> FALSE,
   inShutdown |-> FALSE, g |-> "none", everBound |-> FALSE]

\* Input.Start: creates the http.Server, spawns the goroutine that runs
\* ListenAndServe, and returns nil without waiting for it
InputStart(inst) ==
  IF inst.listenAddr = EmptyStr THEN inst
  ELSE [inst EXCEPT !.server = TRUE, !.g = "spawned"]

\* Input.Stop: server.Close() when the server exists. Close marks the server
\* as shutting down and closes the listeners Serve has registered.
InputStop(inst) ==
  IF inst.server
  THEN [inst EXCEPT !.inShutdown = TRUE,
                    !.g = IF inst.g = "serving" THEN "exited" ELSE inst.g]
  ELSE inst

\* the address is one net.Listen can resolve: host without colon, numeric port
AddrResolves(addr) ==
  LET idx == LastIndexColon(addr)
  IN /\ validListenAddr(addr)
     /\ \A i \in 1..(idx - 1) : addr[i] # ":" /\ ~IsSpace(addr[i])

PortOf(addr) == SubSeq(addr, LastIndexColon(addr) + 1, Len(addr))

Listening(i) == insts[i].g \in {"bound", "serving"}

BoundPorts == {PortOf(insts[i].listenAddr) : i \in {j \in 1..Len(insts) : Listening(j)}}

\* stopAndUnmount on the instance rec.Run: Stop, then the unmount of its path
\* from the dispatcher of the main server, where no input is mounted
stopAndUnmount(is, run) == [is EXCEPT ![run] = InputStop(is[run])]

(***************************************************************************)
(* The ingest path: Input.Handler and the buffer it writes to.             *)
(* A byte string is either a text (a tuple of characters) or the           *)
(* serialisation of a log entry by json.Marshal.                           *)
(***************************************************************************)
maxBodyInRawLog == 65536

Conns == {"c1", "c2"}

TruncatedMark == <<"... [truncated]">>

NoRaw == [method |-> "", path |-> EmptyStr, query |-> EmptyStr,
          headers |-> [k \in {} |-> ""], body |-> EmptyStr]

NoEntry == [timestamp |-> 0, service |-> "", level |-> "", message |-> EmptyStr,
            tags |-> [k \in {} |-> EmptyStr], raw_request |-> NoRaw]

Text(chars) == [fmt |-> "text", text |-> chars, obj |-> NoEntry]

Json(entry) == [fmt |-> "json", text |-> EmptyStr, obj |-> entry]

\* bodies a client may send: nothing, plain text, a log entry as JSON, a JSON
\* object without the required fields
EmptyBody == EmptyStr
TextBody == <<"h", "i">>
EntryBody == <<"{", "s", "l", "m", "}">>
PartialBody == <<"{", "m", "}">>

Bodies == {EmptyBody, TextBody, EntryBody, PartialBody}

Methods == {"POST", "GET", "OPTIONS"}

\* r.Header of the requests: one header sent with two values
ReqHeader == [k \in {"X"} |-> <<"a", "b">>]

\* headers[k] = v[0] for every header with at least one value
FlattenHeaders(hd) == [k \in {n \in DOMAIN hd : Len(hd[n]) > 0} |-> hd[k][1]]

TruncateBody_AtLimit(body) ==
  IF Len(body) >= maxBodyInRawLog
  THEN SubSeq(body, 1, maxBodyInRawLog) \o TruncatedMark
  ELSE body

\* bodyStr: the body as stored in the raw-request record
TruncateBody(body) ==
  IF Len(body) > maxBodyInRawLog
  THEN SubSeq(body, 1, maxBodyInRawLog) \o TruncatedMark
  ELSE body

\* the model.LogEntry built by Input.Handler for a request
RawLogEntry(r, now) ==
  [timestamp |-> now, service |-> "ingest", level |-> "info",
   message |-> <<"raw http request">>,
   tags |-> [k \in {"path"} |-> r.path],
   raw_request |-> [method |-> r.method, path |-> r.path, query |-> EmptyStr,
                    headers |-> FlattenHeaders(r.headers),
                    body |-> TruncateBody(r.body)]]

\* memoryBuffer.Insert, between Lock and Unlock
Insert_Prepend(lg, p) == <<p>> \o lg

Insert(lg, p) == Append(lg, p)

NoHReq == [method |-> "", path |-> EmptyStr, headers |-> [k \in {} |-> <<>>],
           body |-> EmptyBody, readOk |-> TRUE]
NoHLoc == [rawLogJSON |-> Text(EmptyStr), call |-> 0, req |-> 0]

\* batcher.DefaultBatcherConfig() overridden by cfg.Batcher.MaxBatchSize
MaxBatchSizeOf_IgnoreConfig(cfgSize) == DefaultMaxBatchSize

MaxBatchSizeOf(cfgSize) == IF cfgSize > 0 THEN cfgSize ELSE DefaultMaxBatchSize

NoKey == [project |-> "", date |-> 0, batch |-> 0]
NoStatus ==
  [last_upload_count |-> 0, last_upload_key |-> NoKey, last_upload_at |-> 0,
   pending_count |-> 0]

\* JSON texts: a value of kind array carries its items
JsonDoc(kind, items) == [kind |-> kind, items |-> items]

\* stored bytes: not gzip at all, a gzip stream cut short, or a gzip stream
\* of a text
Blob(gz, doc) == [gz |-> gz, doc |-> doc]
NoDoc == JsonDoc("invalid", <<>>)
NoObject == Blob("missing", NoDoc)

\* the keys objects are stored under
Keys == {"k1", "k2"}

NoSRes == [op |-> "none", key |-> "", err |-> "ok", entries |-> <<>>, status |-> 0,
           create |-> "none", fault |-> FALSE, prev |-> <<"none", "ok", "none">>]

\* the outcome of a call that follows the call whose outcome is r
After(r) == [NoSRes EXCEPT !.prev = <<r.op, r.err, r.create>>]

\* the object store before the client is used
StorageInit(Buckets) ==
  /\ bucket \in Buckets
  /\ objects = [k \in Keys |-> NoObject]
  /\ sres = NoSRes
  /\ epc = "idle"
  /\ nsop = 0

\* server.New has returned; no request has reached an input yet
IngestInit(on, cfgSize) ==
  /\ batcherOn = on
  /\ cfgMaxBatchSize = cfgSize
  /\ bc = MaxBatchSizeOf(cfgSize)
  /\ pending = 0
  /\ upStatus = NoStatus
  /\ ring = <<>>
  /\ added = <<>>
  /\ uploads = <<>>
  /\ bpc = IF on THEN "wait" ELSE "off"
  /\ taken = <<>>
  /\ batch = <<>>
  /\ wake = "none"
  /\ stopping = FALSE
  /\ atStop = {}
  /\ nbatch = 0
  /\ mux = {}
  /\ mounted = "no"
  /\ mspecs = <<>>
  /\ mreq = [c \in Conns |-> NoHReq]
  /\ logs = <<>>
  /\ bufMu = Free
  /\ queue = <<>>
  /\ hpc = [c \in Conns |-> "idle"]
  /\ hreq = [c \in Conns |-> NoHReq]
  /\ hloc = [c \in Conns |-> NoHLoc]
  /\ hresp = [c \in Conns |-> 0]
  /\ nhreq = 0
  /\ nins = 0

(***************************************************************************)
(* Initial states: the rows persisted by earlier runs of the process.      *)
(***************************************************************************)
HttpCfg(listen) == Put(Put(EmptyCfg, "base_path", Ingest), "listen", listen)

RowTemplates ==
  { [type |-> "http", cfg |-> HttpCfg(L1)],
    [type |-> "http", cfg |-> HttpCfg(L2)],
    [type |-> "http", cfg |-> HttpCfg(LTwoColons)],
    [type |-> "http", cfg |-> HttpCfg(Blank)],
    [type |-> "http", cfg |-> Put(EmptyCfg, "base_path", Ingest)],
    [type |-> "syslog", cfg |-> HttpCfg(L1)] }

MkRow(id, t) ==
  [id |-> id, type |-> t.type, title |-> GivenTitle(TitleText), cfg |-> t.cfg,
   created_at |-> id, desired_state |-> "RUNNING"]

\* the controller before RestoreInputs, over the rows of earlier runs
ControllerInitDb(maxRows, Templates, Faulty) ==
  /\ dbFaulty \in Faulty
  /\ dbErr = [who \in Procs \cup {Restorer} |-> "ok"]
  /\ \E n \in 0..maxRows : \E f \in [1..n -> Templates] :
       /\ store = [id \in 1..n |-> MkRow(id, f[id])]
       /\ born = [id \in 1..n |-> id]
       /\ nextId = n + 1
       /\ clock = n + 1
  /\ Instances = EmptyMap
  /\ InstancesMu = Free
  /\ unguarded = FALSE
  /\ insts = <<>>
  /\ phase = "init"
  /\ restoreList = <<>>
  /\ pc = [p \in Procs |-> "idle"]
  /\ req = [p \in Procs |-> NoReq]
  /\ loc = [p \in Procs |-> NoLoc]
  /\ resp = [p \in Procs |-> NoResp]
  /\ nreq = 0

\* the same over a database that answers every call
ControllerInit(maxRows, Templates) ==
  ControllerInitDb(maxRows, Templates, {FALSE})

InitWith(maxRows, Templates) ==
  /\ ControllerInit(maxRows, Templates)
  /\ IngestInit(FALSE, 0)
  /\ StorageInit({"mine"})

\* rows left by earlier runs, when requests are served in parallel
ParTemplates == {[type |-> "http", cfg |-> HttpCfg(L1)]}

Init == InitWith(MaxInitRows, ParTemplates)

(***************************************************************************)
(* The goroutine spawned by Input.Start: http.Server.ListenAndServe.       *)
(***************************************************************************)
\* ListenAndServe returns ErrServerClosed at once when the server is closed
ListenAndServe_Check(i) ==
  /\ insts[i].g = "spawned"
  /\ insts' = [insts EXCEPT ![i].g = IF insts[i].inShutdown THEN "exited" ELSE "checked"]
  /\ UNCHANGED <<storeVars, mapVars, restoreVars, ingestVars, storageVars, procVars>>

\* net.Listen("tcp", addr): fails when the address does not resolve or the
\* port is taken
ListenAndServe_Listen(i) ==
  /\ insts[i].g = "checked"
  /\ IF AddrResolves(insts[i].listenAddr) /\ PortOf(insts[i].listenAddr) \notin BoundPorts
     THEN insts' = [insts EXCEPT ![i].g = "bound", ![i].everBound = TRUE]
     ELSE insts' = [insts EXCEPT ![i].g = "exited"]
  /\ UNCHANGED <<storeVars, mapVars, restoreVars, ingestVars, storageVars, procVars>>

\* Serve registers the listener unless the server is closed, in which case
\* it closes the listener and returns ErrServerClosed
ListenAndServe_Serve(i) ==
  /\ insts[i].g = "bound"
  /\ insts' = [insts EXCEPT ![i].g = IF insts[i].inShutdown THEN "exited" ELSE "serving"]
  /\ UNCHANGED <<storeVars, mapVars, restoreVars, ingestVars, storageVars, procVars>>

(***************************************************************************)
(* RestoreInputs, called by server.New before the API is served.           *)
(***************************************************************************)
\* lines 351-355: List; on error the restore is given up
RestoreInputs_List ==
  /\ phase = "init"
  /\ \E fail \in RepoFaults(TRUE) :
       /\ RepoCall(Restorer, "List", fail)
       /\ restoreList' = IF fail THEN <<>> ELSE RepoList(store)
  /\ phase' = "restore"
  /\ UNCHANGED <<rowVars, mapVars, insts, procVars, ingestVars, storageVars>>

RestoreOutcome(in) ==
  LET cfg0 == in.cfg
      cfg == IF Has(cfg0, "base_path") THEN cfg0 ELSE Put(cfg0, "base_path", Ingest)
  IN IF in.type # "http" THEN "not http"
     ELSE IF ~Has(cfg0, "listen") THEN "no listen"
     ELSE IF RegistryCreate(in.type, cfg) # "ok" THEN "create failed"
     ELSE "started"

\* what the loop does after a row whose instance could not be created
AfterFailure_Abort(rest) == <<>>

AfterFailure(rest) == rest

\* one iteration of the loop, up to and including InstancesMu.Lock()
RestoreInputs_Row ==
  /\ phase = "restore"
  /\ restoreList # <<>>
  /\ InstancesMu = Free
  /\ LET in == Head(restoreList)
         out == RestoreOutcome(in)
     IN IF out = "started"
        THEN /\ insts' = Append(insts, InputStart(NewInput(in.id, GetStr(in.cfg, "listen"))))
             /\ InstancesMu' = Restorer
             /\ UNCHANGED restoreList
        ELSE /\ restoreList' = IF out = "create failed"
                               THEN AfterFailure(Tail(restoreList))
                               ELSE Tail(restoreList)
             /\ UNCHANGED <<insts, InstancesMu>>
  /\ UNCHANGED <<storeVars, Instances, unguarded, phase, procVars, ingestVars, storageVars>>

\* h.Instances[in.ID] = ...; InstancesMu.Unlock()
RestoreInputs_Insert ==
  /\ phase = "restore"
  /\ InstancesMu = Restorer
  /\ LET in == Head(restoreList)
     IN Instances' = Put(Instances, in.id, Len(insts))
  /\ unguarded' = (unguarded \/ InstancesMu # Restorer)
  /\ InstancesMu' = Free
  /\ restoreList' = Tail(restoreList)
  /\ UNCHANGED <<storeVars, insts, phase, procVars, ingestVars, storageVars>>

\* RestoreInputs returns and the server starts serving the API
RestoreInputs_Done ==
  /\ phase = "restore"
  /\ restoreList = <<>>
  /\ phase' = "serving"
  /\ UNCHANGED <<storeVars, mapVars, insts, restoreList, procVars, ingestVars, storageVars>>

(***************************************************************************)
(* Request handlers.  A handler is split where other handlers can          *)
(* interleave: at each repository call and at each InstancesMu.Lock().     *)
(***************************************************************************)
ReqTypes == {"", "http", "syslog"}
ReqListens == {EmptyStr, L1, L2, LNoColon, LTwoColons}
ReqConfigs == {EmptyCfg}
ReqTitles == {TitleText}
ReqDescriptions == {EmptyStr}

\* the requests drawn when handlers run in parallel
ParTypes == {"http"}
ParListens == {L1}

\* the bodies of POST /inputs: every listen for http, one for the other types
CreateReqsTitled(Ts, Ls, Titles) ==
  { r \in [op : {"create"}, type : Ts, title : Titles, listen : Ls,
            description : ReqDescriptions, config : ReqConfigs, id : {0}] :
      r.type # "http" => r.listen = L1 }

\* the same, each with a title
CreateReqs(Ts, Ls) == CreateReqsTitled(Ts, Ls, ReqTitles)

\* ids a request may name: every id handed out so far
KnownIds == 1..(nextId - 1)

Respond(p, status, id, created_at, views) ==
  /\ pc' = [pc EXCEPT ![p] = "idle"]
  /\ resp' = [resp EXCEPT ![p] = [status |-> status, id |-> id,
                                  created_at |-> created_at, views |-> views]]
  /\ loc' = [loc EXCEPT ![p] = NoLoc]

Goto(p, label) ==
  /\ pc' = [pc EXCEPT ![p] = label]
  /\ UNCHANGED resp

Accept(p, r) ==
  /\ phase = "serving"
  /\ pc[p] = "idle"
  /\ nreq < MaxReqs
  /\ nreq' = nreq + 1
  /\ req' = [req EXCEPT ![p] = r]

\* the configuration CreateInput builds from the request
CreateCfg(r) ==
  LET c0 == Merge(EmptyCfg, r.config)
      cd == IF r.description # EmptyStr THEN Put(c0, "description", r.description) ELSE c0
      c1 == IF Has(cd, "base_path") THEN cd ELSE Put(cd, "base_path", Ingest)
  IN IF r.listen # EmptyStr THEN Put(c1, "listen", r.listen) ELSE c1

UpdateCfg_Replace(in, r) ==
  CreateCfg(r)

\* the configuration UpdateInput builds from the row read and the request
UpdateCfg(in, r) ==
  LET c0 == Merge(Merge(EmptyCfg, in.cfg), r.config)
      cd == IF r.description # EmptyStr THEN Put(c0, "description", r.description) ELSE c0
      c1 == IF Has(cd, "base_path") THEN cd ELSE Put(cd, "base_path", Ingest)
  IN IF r.listen # EmptyStr THEN Put(c1, "listen", r.listen) ELSE c1

ListenInUse_FirstRowOnly(st, self, listen) ==
  \E k \in 1..Len(RepoList(st)) :
     LET ex == RepoList(st)[k]
     IN /\ k = 1
        /\ ex.id # self
        /\ ex.type = "http"
        /\ GetStr(ex.cfg, "listen") # EmptyStr
        /\ GetStr(ex.cfg, "listen") = listen

ListenInUse_WrongKey(st, self, listen) ==
  \E k \in 1..Len(RepoList(st)) :
     LET ex == RepoList(st)[k]
     IN /\ ex.id # self
        /\ ex.type = "http"
        /\ GetStr(ex.cfg, "base_path") # EmptyStr
        /\ GetStr(ex.cfg, "base_path") = listen

\* the port-uniqueness loop of CreateInput (self = 0) and UpdateInput
ListenInUse(st, self, listen) ==
  \E k \in 1..Len(RepoList(st)) :
     LET ex == RepoList(st)[k]
     IN /\ ex.id # self
        /\ ex.type = "http"
        /\ GetStr(ex.cfg, "listen") # EmptyStr
        /\ GetStr(ex.cfg, "listen") = listen

----
\* CreateInput, lines 110-145: bind, the title (a uuid.New() of its own when
\* the request has none), defaults, ValidateConfig
CreateInput_Validate(p, Rs) ==
  \E r \in Rs :
    LET cfg == CreateCfg(r)
        synth == r.type # "" /\ r.title = EmptyStr
        title == IF synth THEN SynthTitle(nextId) ELSE GivenTitle(r.title)
    IN /\ Accept(p, r)
       /\ nextId' = IF synth THEN nextId + 1 ELSE nextId
       /\ IF \/ r.type = ""
             \/ (r.type = "http" /\ ~Has(cfg, "listen"))
             \/ ValidateConfig(r.type, cfg) # "ok"
          THEN Respond(p, 400, 0, 0, NoViews)
          ELSE /\ Goto(p, "c_check")
               /\ loc' = [loc EXCEPT ![p].cfg = cfg, ![p].title = title]
       /\ RepoCall(p, "none", FALSE)
       /\ UNCHANGED <<store, born, clock, mapVars, insts, restoreVars, ingestVars, storageVars>>

\* CreateInput, lines 147-166: List and the port-uniqueness check
CreateInput_Check(p) ==
  /\ pc[p] = "c_check"
  /\ \E fail \in RepoFaults(req[p].type = "http") :
       /\ RepoCall(p, "List", fail)
       /\ IF fail
          THEN Respond(p, 500, 0, 0, NoViews)
          ELSE IF req[p].type = "http" /\ ListenInUse(store, 0, GetStr(loc[p].cfg, "listen"))
          THEN Respond(p, 409, 0, 0, NoViews)
          ELSE Goto(p, "c_persist") /\ UNCHANGED loc
  /\ UNCHANGED <<rowVars, mapVars, insts, restoreVars, ingestVars, storageVars, req, nreq>>

\* CreateInput, lines 168-176: InputRepo.Create
CreateInput_Persist(p) ==
  /\ pc[p] = "c_persist"
  /\ \E fail \in RepoFaults(TRUE) :
       LET row == [id |-> nextId, type |-> req[p].type, title |-> loc[p].title, cfg |-> loc[p].cfg,
                   created_at |-> clock, desired_state |-> "RUNNING"]
       IN /\ RepoCall(p, "Create", fail)
          /\ IF fail
             THEN /\ Respond(p, 500, 0, 0, NoViews)
                  /\ UNCHANGED rowVars
             ELSE /\ store' = RepoCreate(store, row)
                  /\ born' = Put(born, row.id, row.created_at)
                  /\ loc' = [loc EXCEPT ![p].in = row]
                  /\ nextId' = nextId + 1
                  /\ clock' = clock + 1
                  /\ Goto(p, "c_runtime")
  /\ UNCHANGED <<mapVars, insts, restoreVars, ingestVars, storageVars, req, nreq>>

\* CreateInput, lines 178-184: Registry.Create and run.Start()
CreateInput_Runtime(p) ==
  /\ pc[p] = "c_runtime"
  /\ IF RegistryCreate(req[p].type, loc[p].cfg) # "ok"
     THEN Respond(p, 400, 0, 0, NoViews) /\ UNCHANGED insts
     ELSE /\ insts' = Append(insts, InputStart(NewInput(loc[p].in.id, GetStr(loc[p].cfg, "listen"))))
          /\ loc' = [loc EXCEPT ![p].run = Len(insts) + 1]
          /\ Goto(p, "c_lock")
  /\ UNCHANGED <<storeVars, mapVars, restoreVars, ingestVars, storageVars, req, nreq>>

Acquire_NoWait(p) == InstancesMu' = p

\* InstancesMu.Lock()
Acquire(p) == InstancesMu = Free /\ InstancesMu' = p

\* an access to h.Instances followed by InstancesMu.Unlock()
Release(p) ==
  /\ unguarded' = (unguarded \/ InstancesMu # p)
  /\ InstancesMu' = IF InstancesMu = p THEN Free ELSE InstancesMu

\* CreateInput, line 188
CreateInput_Lock(p) ==
  /\ pc[p] = "c_lock"
  /\ Acquire(p)
  /\ Goto(p, "c_insert")
  /\ UNCHANGED <<storeVars, Instances, unguarded, insts, restoreVars, ingestVars, storageVars, req, loc, nreq>>

\* CreateInput, lines 189-199: insert into the map, unlock, respond 201
CreateInput_Insert(p) ==
  /\ pc[p] = "c_insert"
  /\ Instances' = Put(Instances, loc[p].in.id, loc[p].run)
  /\ Release(p)
  /\ Respond(p, 201, loc[p].in.id, loc[p].in.created_at, NoViews)
  /\ UNCHANGED <<storeVars, insts, restoreVars, ingestVars, storageVars, req, nreq>>

----
\* the bodies of PUT /inputs/:id
UpdateReqs(Ls, Ds, Cs) ==
  [op : {"update"}, type : {""}, title : {EmptyStr}, listen : Ls, description : Ds,
   config : Cs, id : KnownIds]

\* UpdateInput, lines 220-234: GetByID
UpdateInput_Get(p, Rs) ==
  \E r \in Rs, fail \in RepoFaults(TRUE) :
    LET in == IF fail THEN NoRow ELSE RepoGetByID(store, r.id)
    IN /\ Accept(p, r)
       /\ RepoCall(p, "GetByID", fail)
       /\ IF fail \/ in = NoRow
          THEN Respond(p, 404, 0, 0, NoViews)
          ELSE /\ Goto(p, "u_lock")
               /\ loc' = [loc EXCEPT ![p].in = in]
       /\ UNCHANGED <<rowVars, mapVars, insts, restoreVars, ingestVars, storageVars>>

\* UpdateInput, line 237
UpdateInput_Lock(p) ==
  /\ pc[p] = "u_lock"
  /\ Acquire(p)
  /\ Goto(p, "u_stop")
  /\ UNCHANGED <<storeVars, Instances, unguarded, insts, restoreVars, ingestVars, storageVars, req, loc, nreq>>

\* what a handler does with the instance it finds in the map
StopExisting_KeepEntry(p, id) ==
  /\ IF id \in DOMAIN Instances
     THEN insts' = stopAndUnmount(insts, Instances[id])
     ELSE UNCHANGED insts
  /\ UNCHANGED Instances
  /\ Release(p)

\* lines 238-243 and 337-342: stop the running instance, delete the entry, unlock
StopExisting(p, id) ==
  /\ IF id \in DOMAIN Instances
     THEN /\ insts' = stopAndUnmount(insts, Instances[id])
          /\ Instances' = [k \in DOMAIN Instances \ {id} |-> Instances[k]]
     ELSE UNCHANGED <<insts, Instances>>
  /\ Release(p)

\* UpdateInput, lines 238-243
UpdateInput_Stop(p) ==
  /\ pc[p] = "u_stop"
  /\ StopExisting(p, loc[p].in.id)
  /\ Goto(p, "u_check")
  /\ UNCHANGED <<storeVars, restoreVars, ingestVars, storageVars, req, loc, nreq>>

\* UpdateInput, lines 245-294: merge, ValidateConfig, List and the port check
UpdateInput_Check(p) ==
  /\ pc[p] = "u_check"
  /\ LET in == loc[p].in
         cfg == UpdateCfg(in, req[p])
         listen == GetStr(cfg, "listen")
         listed == /\ ValidateConfig(in.type, cfg) = "ok"
                   /\ in.type = "http"
                   /\ listen # EmptyStr
     IN \E fail \in RepoFaults(listed) :
          /\ RepoCall(p, "List", fail)
          /\ IF ValidateConfig(in.type, cfg) # "ok"
             THEN Respond(p, 400, 0, 0, NoViews)
             ELSE IF fail
             THEN Respond(p, 500, 0, 0, NoViews)
             ELSE IF in.type = "http" /\ listen # EmptyStr /\ ListenInUse(store, in.id, listen)
             THEN Respond(p, 409, 0, 0, NoViews)
             ELSE /\ Goto(p, "u_persist")
                  /\ loc' = [loc EXCEPT ![p].cfg = cfg]
  /\ UNCHANGED <<rowVars, mapVars, insts, restoreVars, ingestVars, storageVars, req, nreq>>

\* UpdateInput, lines 296-300: InputRepo.Update
UpdateInput_Persist(p) ==
  /\ pc[p] = "u_persist"
  /\ \E fail \in RepoFaults(TRUE) :
       LET in == [loc[p].in EXCEPT
                    !.title = IF req[p].title # EmptyStr THEN GivenTitle(req[p].title) ELSE @,
                    !.cfg = loc[p].cfg, !.desired_state = "RUNNING"]
       IN /\ RepoCall(p, "Update", fail)
          /\ IF fail
             THEN /\ Respond(p, 500, 0, 0, NoViews)
                  /\ UNCHANGED store
             ELSE /\ store' = RepoUpdate(store, in, clock)
                  /\ loc' = [loc EXCEPT ![p].in = in]
                  /\ Goto(p, "u_runtime")
  /\ UNCHANGED <<born, nextId, clock, mapVars, insts, restoreVars, ingestVars, storageVars, req, nreq>>

\* UpdateInput, lines 302-308: Registry.Create and run.Start()
UpdateInput_Runtime(p) ==
  /\ pc[p] = "u_runtime"
  /\ IF RegistryCreate(loc[p].in.type, loc[p].cfg) # "ok"
     THEN Respond(p, 400, 0, 0, NoViews) /\ UNCHANGED insts
     ELSE /\ insts' = Append(insts, InputStart(NewInput(loc[p].in.id, GetStr(loc[p].cfg, "listen"))))
          /\ loc' = [loc EXCEPT ![p].run = Len(insts) + 1]
          /\ Goto(p, "u_lock2")
  /\ UNCHANGED <<storeVars, mapVars, restoreVars, ingestVars, storageVars, req, nreq>>

\* UpdateInput, line 309
UpdateInput_Lock2(p) ==
  /\ pc[p] = "u_lock2"
  /\ Acquire(p)
  /\ Goto(p, "u_insert")
  /\ UNCHANGED <<storeVars, Instances, unguarded, insts, restoreVars, ingestVars, storageVars, req, loc, nreq>>

\* UpdateInput, lines 310-320: insert into the map, unlock, respond 200
UpdateInput_Insert(p) ==
  /\ pc[p] = "u_insert"
  /\ Instances' = Put(Instances, loc[p].in.id, loc[p].run)
  /\ Release(p)
  /\ Respond(p, 200, loc[p].in.id, loc[p].in.created_at, NoViews)
  /\ UNCHANGED <<storeVars, insts, restoreVars, ingestVars, storageVars, req, nreq>>

----
\* DeleteInput, lines 325-334: GetByID
DeleteInput_Get(p) ==
  \E id \in KnownIds, fail \in RepoFaults(TRUE) :
    LET r == [NoReq EXCEPT !.op = "delete", !.id = id]
    IN /\ Accept(p, r)
       /\ RepoCall(p, "GetByID", fail)
       /\ IF fail \/ RepoGetByID(store, id) = NoRow
          THEN Respond(p, 404, 0, 0, NoViews)
          ELSE Goto(p, "d_lock") /\ UNCHANGED loc
       /\ UNCHANGED <<rowVars, mapVars, insts, restoreVars, ingestVars, storageVars>>

\* DeleteInput, line 336
DeleteInput_Lock(p) ==
  /\ pc[p] = "d_lock"
  /\ Acquire(p)
  /\ Goto(p, "d_stop")
  /\ UNCHANGED <<storeVars, Instances, unguarded, insts, restoreVars, ingestVars, storageVars, req, loc, nreq>>

\* DeleteInput, lines 337-342
DeleteInput_Stop(p) ==
  /\ pc[p] = "d_stop"
  /\ StopExisting(p, req[p].id)
  /\ Goto(p, "d_delete")
  /\ UNCHANGED <<storeVars, restoreVars, ingestVars, storageVars, req, loc, nreq>>

\* DeleteInput, lines 344-347: InputRepo.Delete, respond 200
DeleteInput_Delete(p) ==
  /\ pc[p] = "d_delete"
  /\ \E fail \in RepoFaults(TRUE) :
       /\ RepoCall(p, "Delete", fail)
       /\ IF fail
          THEN Respond(p, 500, 0, 0, NoViews) /\ UNCHANGED store
          ELSE /\ store' = RepoDelete(store, req[p].id)
               /\ Respond(p, 200, req[p].id, 0, NoViews)
  /\ UNCHANGED <<born, nextId, clock, mapVars, insts, restoreVars, ingestVars, storageVars, req, nreq>>

----
\* ListInputs, lines 83-88: List, then InstancesMu.Lock()
ListInputs_List(p) ==
  LET r == [NoReq EXCEPT !.op = "list"]
  IN /\ Accept(p, r)
     /\ \E fail \in RepoFaults(TRUE) :
          /\ RepoCall(p, "List", fail)
          /\ IF fail
             THEN Respond(p, 500, 0, 0, NoViews)
             ELSE /\ Goto(p, "l_lock")
                  /\ loc' = [loc EXCEPT ![p].list =
                               [id \in DOMAIN store |-> store[id].desired_state]]
     /\ UNCHANGED <<rowVars, mapVars, insts, restoreVars, ingestVars, storageVars>>

ListInputs_Lock(p) ==
  /\ pc[p] = "l_lock"
  /\ Acquire(p)
  /\ Goto(p, "l_read")
  /\ UNCHANGED <<storeVars, Instances, unguarded, insts, restoreVars, ingestVars, storageVars, req, loc, nreq>>

\* ListInputs, lines 89-105: the state of each row, unlock, respond 200
ListInputs_Read(p) ==
  /\ pc[p] = "l_read"
  /\ LET list == loc[p].list
         views == [id \in DOMAIN list |->
                     IF id \in DOMAIN Instances /\ Instances[id] # 0
                     THEN "RUNNING" ELSE list[id]]
     IN Respond(p, 200, 0, 0, views)
  /\ Release(p)
  /\ UNCHANGED <<storeVars, Instances, insts, restoreVars, ingestVars, storageVars, req, nreq>>

(***************************************************************************)
(* Input.Handler: one ingest request on a connection to a serving input.   *)
(***************************************************************************)
\* the requests clients send
IngestReqs ==
  { r \in [method : Methods, path : {Ingest}, headers : {ReqHeader},
           body : Bodies, readOk : BOOLEAN] :
      /\ r.method = "OPTIONS" => (r.body = TextBody /\ r.readOk)
      /\ r.method = "GET" => (r.body = PartialBody /\ r.readOk)
      /\ r.method = "POST" => r.body # PartialBody
      /\ ~r.readOk => r.body = EmptyBody }

\* the payload the Insert of connection c carries
Payload(c) ==
  IF hpc[c] \in {"insert_raw", "raw_locked"} THEN hloc[c].rawLogJSON ELSE Text(hreq[c].body)

\* where Input.Handler continues after an Insert returned
AfterInsert_SkipBody(c) == "respond"

AfterInsert(c) ==
  IF hpc[c] \in {"insert_raw", "raw_locked"} /\ Len(hreq[c].body) > 0
  THEN "insert_body" ELSE "respond"

\* corsHeaders, the OPTIONS answer, io.ReadAll, json.Marshal of the raw log
ServeRequest(c, r) ==
  /\ IF r.method = "OPTIONS"
     THEN hresp' = [hresp EXCEPT ![c] = 204] /\ UNCHANGED <<hpc, hreq, hloc>>
     ELSE IF ~r.readOk
     THEN hresp' = [hresp EXCEPT ![c] = 400] /\ UNCHANGED <<hpc, hreq, hloc>>
     ELSE /\ hresp' = [hresp EXCEPT ![c] = 0]
          /\ hreq' = [hreq EXCEPT ![c] = r]
          /\ hloc' = [hloc EXCEPT ![c] = [rawLogJSON |-> Json(RawLogEntry(r, clock)),
                                          call |-> 0, req |-> nhreq + 1]]
          /\ hpc' = [hpc EXCEPT ![c] = "insert_raw"]
  /\ nhreq' = nhreq + 1
  /\ UNCHANGED <<batcherOn, cfgMaxBatchSize, logs, bufMu, queue, nins, batcherVars>>
  /\ UNCHANGED <<storeVars, mapVars, insts, restoreVars, procVars, storageVars>>

\* a request arrives on the input's own listener
Handler_Begin(c, Rs) ==
  /\ hpc[c] = "idle"
  /\ nhreq < MaxIngest
  /\ \E r \in Rs : ServeRequest(c, r)
  /\ UNCHANGED muxVars

\* i.buffer.Insert on the memoryBuffer: b.mu.Lock()
Handler_InsertLock(c) ==
  /\ hpc[c] \in {"insert_raw", "insert_body"}
  /\ ~batcherOn
  /\ bufMu = Free
  /\ bufMu' = c
  /\ nins' = nins + 1
  /\ hloc' = [hloc EXCEPT ![c].call = nins + 1]
  /\ hpc' = [hpc EXCEPT ![c] = IF hpc[c] = "insert_raw" THEN "raw_locked" ELSE "body_locked"]
  /\ UNCHANGED <<batcherOn, cfgMaxBatchSize, logs, queue, hreq, hresp, nhreq, batcherVars>>
  /\ UNCHANGED <<storeVars, mapVars, insts, restoreVars, procVars, storageVars, muxVars>>

\* b.logs = append(b.logs, p) and the deferred Unlock
Handler_InsertAppend(c) ==
  /\ hpc[c] \in {"raw_locked", "body_locked"}
  /\ logs' = Insert(logs, [id |-> hloc[c].call, req |-> hloc[c].req, bytes |-> Payload(c)])
  /\ bufMu' = Free
  /\ hpc' = [hpc EXCEPT ![c] = AfterInsert(c)]
  /\ UNCHANGED <<batcherOn, cfgMaxBatchSize, queue, hreq, hloc, hresp, nhreq, nins, batcherVars>>
  /\ UNCHANGED <<storeVars, mapVars, insts, restoreVars, procVars, storageVars, muxVars>>

\* w.WriteHeader(http.StatusAccepted)
Handler_Respond(c) ==
  /\ hpc[c] = "respond"
  /\ hresp' = [hresp EXCEPT ![c] = 202]
  /\ hpc' = [hpc EXCEPT ![c] = "idle"]
  /\ hreq' = [hreq EXCEPT ![c] = NoHReq]
  /\ hloc' = [hloc EXCEPT ![c] = NoHLoc]
  /\ UNCHANGED <<batcherOn, cfgMaxBatchSize, logs, bufMu, queue, nhreq, nins, batcherVars>>
  /\ UNCHANGED <<storeVars, mapVars, insts, restoreVars, procVars, storageVars, muxVars>>

(***************************************************************************)
(* The batcher, the recent logs ring and the upload status store.          *)
(***************************************************************************)
\* a text payload is a log entry when it is a JSON object with the fields
\* service, level and message
IsEntryJSON(t) ==
  /\ Len(t) >= 2
  /\ t[1] = "{"
  /\ t[Len(t)] = "}"
  /\ {"s", "l", "m"} \subseteq {t[i] : i \in 2..(Len(t) - 1)}

\* the entry a valid text payload decodes to
DecodeEntry(t) ==
  [NoEntry EXCEPT !.service = "s", !.level = "l", !.message = <<"m">>]

\* the wrapping of a payload that is not a log entry
WrapRaw(t, now) ==
  [NoEntry EXCEPT !.timestamp = now, !.service = "raw", !.level = "info", !.message = t]

\* the batcher's parse of one payload
ParseLogEntry_NoWrap(bytes, now) ==
  IF bytes.fmt = "json" THEN bytes.obj ELSE DecodeEntry(bytes.text)

ParseLogEntry(bytes, now) ==
  IF bytes.fmt = "json" THEN bytes.obj
  ELSE IF IsEntryJSON(bytes.text) THEN DecodeEntry(bytes.text)
  ELSE WrapRaw(bytes.text, now)

\* RecentLogsStore.AddEntry
AddEntry_NoEvict(r, e) == Append(r, e)

AddEntry(r, e) ==
  IF Len(r) >= RecentCapacity THEN Append(Tail(r), e) ELSE Append(r, e)

\* RecentLogsStore.GetRecent
GetRecent(r) == r

\* BatcherOpts.OnLog as set by server.New
OnLog_Skip(r, e) == r

OnLog(r, e) == AddEntry(r, e)

RECURSIVE OnLogAll(_, _)
OnLogAll(r, es) ==
  IF es = <<>> THEN r ELSE OnLogAll(OnLog(r, Head(es)), Tail(es))

\* UploadStatusStore.SetLastFlush
SetLastFlush(st, count, key, now) ==
  [last_upload_count |-> count, last_upload_key |-> key, last_upload_at |-> now,
   pending_count |-> IF st.pending_count > count THEN st.pending_count - count ELSE 0]

\* BatcherOpts.OnFlush as set by server.New
OnFlush_Drop(st, count, key, now) == st

OnFlush(st, count, key, now) == SetLastFlush(st, count, key, now)

\* GET /logs/status: the snapshot of the status store
LogsStatus ==
  [batcher_enabled |-> batcherOn,
   last_upload_at |-> upStatus.last_upload_at,
   last_upload_key |-> upStatus.last_upload_key,
   last_upload_count |-> upStatus.last_upload_count,
   pending_count |-> upStatus.pending_count]

\* storage.KeyForBatch
KeyForBatch(projectID, batchID, now) ==
  [project |-> IF projectID = "" THEN "default" ELSE projectID, date |-> now, batch |-> batchID]

\* Batcher.Insert
BatcherInsert(q, p) == Append(q, p)

\* i.buffer.Insert on the batcher
Handler_InsertBatcher(c) ==
  /\ hpc[c] \in {"insert_raw", "insert_body"}
  /\ batcherOn
  /\ queue' = BatcherInsert(queue, [id |-> nins + 1, req |-> hloc[c].req, bytes |-> Payload(c)])
  /\ pending' = pending + 1
  /\ nins' = nins + 1
  /\ hpc' = [hpc EXCEPT ![c] = AfterInsert(c)]
  /\ UNCHANGED <<batcherOn, cfgMaxBatchSize, logs, bufMu, hreq, hloc, hresp, nhreq>>
  /\ UNCHANGED <<bc, upStatus, ring, added, uploads, bpc, taken, batch, wake,
                 stopping, atStop, nbatch>>
  /\ UNCHANGED <<storeVars, mapVars, insts, restoreVars, procVars, storageVars, muxVars>>

\* the background task takes the whole queue
TakeQueue(reason) ==
  /\ taken' = queue
  /\ queue' = <<>>
  /\ wake' = reason
  /\ bpc' = "parse"

\* the queue length reached MaxBatchSize
Batcher_Size ==
  /\ bpc = "wait"
  /\ Len(queue) >= bc
  /\ TakeQueue("flush")
  /\ UNCHANGED <<batcherOn, cfgMaxBatchSize, logs, bufMu, hpc, hreq, hloc, hresp, nhreq, nins>>
  /\ UNCHANGED <<bc, pending, upStatus, ring, added, uploads, batch, stopping, atStop, nbatch>>
  /\ UNCHANGED <<storeVars, mapVars, insts, restoreVars, procVars, storageVars, muxVars>>

\* FlushInterval elapsed since the last flush attempt
Batcher_Tick_Idle ==
  /\ bpc = "wait"
  /\ wake' = "tick"
  /\ UNCHANGED <<queue, taken, bpc>>
  /\ UNCHANGED <<batcherOn, cfgMaxBatchSize, logs, bufMu, hpc, hreq, hloc, hresp, nhreq, nins>>
  /\ UNCHANGED <<bc, pending, upStatus, ring, added, uploads, batch, stopping, atStop, nbatch>>
  /\ UNCHANGED <<storeVars, mapVars, insts, restoreVars, procVars, storageVars, muxVars>>

Batcher_Tick ==
  /\ bpc = "wait"
  /\ IF queue = <<>>
     THEN wake' = "tick" /\ UNCHANGED <<queue, taken, bpc>>
     ELSE TakeQueue("flush")
  /\ UNCHANGED <<batcherOn, cfgMaxBatchSize, logs, bufMu, hpc, hreq, hloc, hresp, nhreq, nins>>
  /\ UNCHANGED <<bc, pending, upStatus, ring, added, uploads, batch, stopping, atStop, nbatch>>
  /\ UNCHANGED <<storeVars, mapVars, insts, restoreVars, procVars, storageVars, muxVars>>

\* the payloads of the next batch: all that was taken, or at most
\* MaxBatchSize of it during the final drain
ChunkLen_Whole == Len(taken)

ChunkLen == IF wake = "stop" /\ Len(taken) > bc THEN bc ELSE Len(taken)

\* every payload of the chunk is parsed and handed to OnLog
Batcher_Parse ==
  /\ bpc = "parse"
  /\ LET es == [i \in 1..ChunkLen |->
                 [id |-> taken[i].id, req |-> taken[i].req,
                  entry |-> ParseLogEntry(taken[i].bytes, clock)]]
     IN /\ batch' = es
        /\ ring' = OnLogAll(ring, es)
        /\ added' = added \o es
  /\ taken' = SubSeq(taken, ChunkLen + 1, Len(taken))
  /\ bpc' = "upload"
  /\ UNCHANGED <<batcherOn, cfgMaxBatchSize, logs, bufMu, queue, hpc, hreq, hloc, hresp, nhreq, nins>>
  /\ UNCHANGED <<bc, pending, upStatus, uploads, wake, stopping, atStop, nbatch>>
  /\ UNCHANGED <<storeVars, mapVars, insts, restoreVars, procVars, storageVars, muxVars>>

\* what the flush does once PutObject has returned
AfterUpload_AlwaysFlushed(ok) == TRUE

AfterUpload(ok) == ok

\* PutObject of the batch under a fresh key returns, with or without error
Batcher_Upload ==
  /\ bpc = "upload"
  /\ \E ok \in BOOLEAN :
       LET key == KeyForBatch("default", nbatch + 1, clock)
       IN /\ uploads' = Append(uploads, [batch |-> batch, key |-> key, ok |-> ok,
                                          drain |-> wake = "stop"])
          /\ IF AfterUpload(ok)
             THEN /\ upStatus' = OnFlush(upStatus, Len(batch), key, clock)
                  /\ pending' = pending - Len(batch)
             ELSE UNCHANGED <<upStatus, pending>>
  /\ nbatch' = nbatch + 1
  /\ batch' = <<>>
  /\ bpc' = IF taken # <<>> THEN "parse" ELSE IF wake = "stop" THEN "stopped" ELSE "wait"
  /\ wake' = IF taken # <<>> \/ wake = "stop" THEN wake ELSE "none"
  /\ UNCHANGED <<batcherOn, cfgMaxBatchSize, logs, bufMu, queue, hpc, hreq, hloc, hresp, nhreq, nins>>
  /\ UNCHANGED <<bc, ring, added, taken, stopping, atStop>>
  /\ UNCHANGED <<storeVars, mapVars, insts, restoreVars, procVars, storageVars, muxVars>>

\* Server.Shutdown calls Batcher.Stop
Batcher_Stop ==
  /\ batcherOn
  /\ ~stopping
  /\ stopping' = TRUE
  /\ atStop' = 1..nins
  /\ UNCHANGED <<batcherOn, cfgMaxBatchSize, logs, bufMu, queue, hpc, hreq, hloc, hresp, nhreq, nins>>
  /\ UNCHANGED <<bc, pending, upStatus, ring, added, uploads, bpc, taken, batch, wake, nbatch>>
  /\ UNCHANGED <<storeVars, mapVars, insts, restoreVars, procVars, storageVars, muxVars>>

\* the final drain; Stop returns once the drained payloads are uploaded
Batcher_Drain ==
  /\ bpc = "wait"
  /\ stopping
  /\ taken' = queue
  /\ queue' = <<>>
  /\ wake' = "stop"
  /\ bpc' = IF queue = <<>> THEN "stopped" ELSE "parse"
  /\ UNCHANGED <<batcherOn, cfgMaxBatchSize, logs, bufMu, hpc, hreq, hloc, hresp, nhreq, nins>>
  /\ UNCHANGED <<bc, pending, upStatus, ring, added, uploads, batch, stopping, atStop, nbatch>>
  /\ UNCHANGED <<storeVars, mapVars, insts, restoreVars, procVars, storageVars, muxVars>>

(***************************************************************************)
(* Registry.MountHTTPEndpoints: inputs mounted on an http.ServeMux.        *)
(***************************************************************************)
Slash == <<"/">>

RECURSIVE TrimSlashLeft(_)
TrimSlashLeft(s) ==
  IF s = <<>> THEN s
  ELSE IF Head(s) = "/" THEN TrimSlashLeft(Tail(s)) ELSE s

RECURSIVE TrimSlashRight(_)
TrimSlashRight(s) ==
  IF s = <<>> THEN s
  ELSE IF s[Len(s)] = "/" THEN TrimSlashRight(SubSeq(s, 1, Len(s) - 1)) ELSE s

\* strings.Trim(s, "/")
TrimSlashes(s) == TrimSlashRight(TrimSlashLeft(s))

\* NewInput: the base path with one leading slash, /ingest when empty
NormalizeBase(basePath) ==
  LET b == Slash \o TrimSlashes(TrimSpace(basePath))
  IN IF b = Slash THEN Ingest ELSE b

\* NewInput: the path served
InputPath(basePath, description, listenAddr) ==
  IF listenAddr # EmptyStr THEN NormalizeBase(basePath)
  ELSE LET desc == TrimSlashes(TrimSpace(description))
       IN NormalizeBase(basePath) \o Slash \o (IF desc = EmptyStr THEN <<"r", "a", "w">> ELSE desc)

\* Factory.Create: the path of the input it returns
FactoryInputPath(cfg) ==
  InputPath(IF GetStr(cfg, "base_path") = EmptyStr THEN Ingest ELSE GetStr(cfg, "base_path"),
            EmptyStr, GetStr(cfg, "listen"))

\* InputSpec.ConfigWithDescription
ConfigWithDescription(sp) ==
  IF sp.description # EmptyStr THEN Put(sp.config, "description", sp.description) ELSE sp.config

\* the loop of MountHTTPEndpoints: the patterns registered and the error
\* returned; mux.Handle panics on a pattern registered twice
RECURSIVE MountAll(_, _)
MountAll(m, specs) ==
  IF specs = <<>> THEN [mux |-> m, err |-> "ok"]
  ELSE LET cfg == ConfigWithDescription(Head(specs))
           e == RegistryCreate(Head(specs).type, cfg)
           path == FactoryInputPath(cfg)
       IN IF e # "ok" THEN [mux |-> m, err |-> e]
          ELSE IF path \in m THEN [mux |-> m, err |-> "panic"]
          ELSE MountAll(m \cup {path}, Tail(specs))

BasePaths == {<<"/", "i">>, <<"i", "/">>}
Descriptions == {EmptyStr, <<"r">>}

MountConfigs ==
  { c \in UNION {[ks -> BasePaths \cup {L1}] : ks \in SUBSET {"base_path", "listen"}} :
      /\ Has(c, "listen") => c["listen"] = L1
      /\ Has(c, "base_path") => c["base_path"] \in BasePaths }

MountSpecs ==
  [type : {"http"}, description : Descriptions, config : MountConfigs]
    \cup [type : {"syslog"}, description : {<<"r">>}, config : {EmptyCfg}]

\* the inputs.InputSpec lists the endpoints are mounted from
SpecLists ==
  {<<sp>> : sp \in MountSpecs}
    \cup {<<a, b>> : a, b \in {sp \in MountSpecs : Has(sp.config, "listen") /\ sp.description = EmptyStr}}

\* base_path/description, where a client posts for the input of a spec
EndpointOf(sp) ==
  NormalizeBase(GetStr(sp.config, "base_path")) \o Slash \o sp.description

\* the requests sent to the mux
MuxReqs ==
  { r \in [method : {"POST"}, headers : {ReqHeader}, body : {EmptyBody, TextBody},
           readOk : {TRUE},
           path : UNION {{EndpointOf(mspecs[i]), NormalizeBase(GetStr(mspecs[i].config, "base_path"))} :
                           i \in 1..Len(mspecs)}] : TRUE }

MountHTTPEndpoints ==
  /\ mounted = "no"
  /\ \E specs \in SpecLists :
       /\ mux' = MountAll(mux, specs).mux
       /\ mounted' = MountAll(mux, specs).err
       /\ mspecs' = specs
  /\ UNCHANGED mreq
  /\ UNCHANGED <<batcherOn, cfgMaxBatchSize, logs, bufMu, queue, hpc, hreq, hloc, hresp, nhreq, nins, batcherVars>>
  /\ UNCHANGED <<storeVars, mapVars, insts, restoreVars, procVars, storageVars>>

\* ServeMux.ServeHTTP: the handler of the pattern equal to the path, or 404
Mux_ServeHTTP(c) ==
  /\ mounted # "no"
  /\ hpc[c] = "idle"
  /\ nhreq < MaxIngest
  /\ \E r \in MuxReqs :
       /\ mreq' = [mreq EXCEPT ![c] = r]
       /\ IF r.path \in mux
          THEN ServeRequest(c, r)
          ELSE /\ hresp' = [hresp EXCEPT ![c] = 404]
               /\ nhreq' = nhreq + 1
               /\ UNCHANGED <<batcherOn, cfgMaxBatchSize, logs, bufMu, queue, hpc, hreq, hloc, nins, batcherVars>>
               /\ UNCHANGED <<storeVars, mapVars, insts, restoreVars, procVars, storageVars>>
  /\ UNCHANGED <<mux, mounted, mspecs>>

(***************************************************************************)
(* storage.O3Client and the object store behind it.                        *)
(***************************************************************************)
\* a byte that is not valid UTF-8 on its own, and U+FFFD, which encoding/json
\* puts in its place
BadByte == "xFF"
RuneError == "uFFFD"

\* strings as encoding/json writes and reads them
ToValidUTF8(s) == [i \in 1..Len(s) |-> IF s[i] = BadByte THEN RuneError ELSE s[i]]

\* json.Marshal of a model.RawRequestData: query, headers and body are omitempty
MarshalRaw(rq) ==
  LET full == [method |-> rq.method, path |-> ToValidUTF8(rq.path),
               query |-> ToValidUTF8(rq.query), headers |-> rq.headers,
               body |-> ToValidUTF8(rq.body)]
      keys == {"method", "path"}
                \cup (IF rq.query # EmptyStr THEN {"query"} ELSE {})
                \cup (IF DOMAIN rq.headers # {} THEN {"headers"} ELSE {})
                \cup (IF rq.body # EmptyStr THEN {"body"} ELSE {})
  IN [k \in keys |-> full[k]]

\* json.Marshal of a model.LogEntry: tags and raw_request are omitempty
MarshalEntry(e) ==
  LET full == [timestamp |-> e.timestamp, service |-> e.service, level |-> e.level,
               message |-> ToValidUTF8(e.message),
               tags |-> [k \in DOMAIN e.tags |-> ToValidUTF8(e.tags[k])],
               raw_request |-> MarshalRaw(e.raw_request)]
      keys == {"timestamp", "service", "level", "message"}
                \cup (IF DOMAIN e.tags # {} THEN {"tags"} ELSE {})
                \cup (IF e.raw_request # NoRaw THEN {"raw_request"} ELSE {})
  IN [k \in keys |-> full[k]]

\* a field of a JSON object, or the zero value when the object lacks it
Field(f, k, zero) == IF k \in DOMAIN f THEN f[k] ELSE zero

\* json.Unmarshal of a JSON object into a model.RawRequestData
UnmarshalRaw(f) ==
  [method |-> Field(f, "method", NoRaw.method),
   path |-> ToValidUTF8(Field(f, "path", NoRaw.path)),
   query |-> ToValidUTF8(Field(f, "query", NoRaw.query)),
   headers |-> Field(f, "headers", NoRaw.headers),
   body |-> ToValidUTF8(Field(f, "body", NoRaw.body))]

\* json.Unmarshal of a JSON object into a model.LogEntry
UnmarshalEntry(f) ==
  [timestamp |-> Field(f, "timestamp", NoEntry.timestamp),
   service |-> Field(f, "service", NoEntry.service),
   level |-> Field(f, "level", NoEntry.level),
   message |-> ToValidUTF8(Field(f, "message", NoEntry.message)),
   tags |-> LET t == Field(f, "tags", NoEntry.tags)
            IN [k \in DOMAIN t |-> ToValidUTF8(t[k])],
   raw_request |-> IF "raw_request" \in DOMAIN f THEN UnmarshalRaw(f["raw_request"])
                   ELSE NoRaw]

\* the items of a JSON array: an object (with its fields), null, or a value
\* no LogEntry can be decoded from
NoFields == [k \in {} |-> 0]
JsonItem(kind, fields) == [kind |-> kind, fields |-> fields]

\* json.Marshal of a []model.LogEntry
MarshalEntries(es) ==
  JsonDoc("array", [i \in 1..Len(es) |-> JsonItem("object", MarshalEntry(es[i]))])

\* json.Unmarshal(decoded, &entries): null leaves entries nil without error,
\* a null item leaves the zero entry
UnmarshalEntries(doc) ==
  IF doc.kind = "null" THEN [err |-> "ok", entries |-> <<>>]
  ELSE IF doc.kind # "array" THEN [err |-> "json", entries |-> <<>>]
  ELSE IF \E i \in 1..Len(doc.items) : doc.items[i].kind \notin {"object", "null"}
  THEN [err |-> "json", entries |-> <<>>]
  ELSE [err |-> "ok",
        entries |-> [i \in 1..Len(doc.items) |->
                       IF doc.items[i].kind = "null" THEN NoEntry
                       ELSE UnmarshalEntry(doc.items[i].fields)]]

Gzip(doc) == Blob("ok", doc)

\* the batch as the batcher stores it
EncodeBatch(es) == Gzip(MarshalEntries(es))

\* gzip.NewReader and io.ReadAll
Gunzip(blob) ==
  IF blob.gz = "none" THEN [err |-> "gzip", doc |-> NoDoc]
  ELSE IF blob.gz = "truncated" THEN [err |-> "read", doc |-> NoDoc]
  ELSE [err |-> "ok", doc |-> blob.doc]

\* O3Client.GetObject
GetObject(key, fault) ==
  IF fault THEN [err |-> "RequestError", data |-> NoObject]
  ELSE IF bucket = "absent" THEN [err |-> "NoSuchBucket", data |-> NoObject]
  ELSE IF bucket = "other" THEN [err |-> "AccessDenied", data |-> NoObject]
  ELSE IF objects[key] = NoObject THEN [err |-> "NoSuchKey", data |-> NoObject]
  ELSE [err |-> "ok", data |-> objects[key]]

\* O3Client.GetObjectLogs
GetObjectLogs(key, fault) ==
  LET raw == GetObject(key, fault)
      zr == Gunzip(raw.data)
  IN IF raw.err # "ok" THEN [err |-> raw.err, entries |-> <<>>]
     ELSE IF zr.err # "ok" THEN [err |-> zr.err, entries |-> <<>>]
     ELSE UnmarshalEntries(zr.doc)

\* entries a batch may hold: one with tags and a raw request, and the
\* wrapping of a body that is not text
PlainEntry ==
  [NoEntry EXCEPT !.timestamp = 1, !.service = "s", !.level = "l", !.message = <<"m">>,
                  !.tags = [k \in {"path"} |-> Ingest],
                  !.raw_request = [NoRaw EXCEPT !.method = "POST", !.path = Ingest]]
BinaryEntry == WrapRaw(<<"h", BadByte>>, 1)
SampleEntries == {PlainEntry, BinaryEntry}

EntryLists == UNION {[1..n -> SampleEntries] : n \in 0..MaxEntries}

\* objects that are not batches
ForeignBlobs ==
  {Blob("none", NoDoc), Blob("truncated", NoDoc), Gzip(NoDoc),
   Gzip(JsonDoc("null", <<>>)), Gzip(JsonDoc("object", <<>>)),
   Gzip(JsonDoc("array", <<JsonItem("number", NoFields)>>)),
   Gzip(JsonDoc("array", <<JsonItem("null", NoFields)>>))}

Blobs == {EncodeBatch(es) : es \in EntryLists} \cup ForeignBlobs

\* HeadBucket: it fails unless the bucket exists and is the client's
EnsureBucket_Head ==
  /\ batcherOn
  /\ epc = "idle"
  /\ nsop < MaxStorageOps
  /\ nsop' = nsop + 1
  /\ \E fault \in BOOLEAN :
       IF bucket = "mine" /\ ~fault
       THEN /\ sres' = [After(sres) EXCEPT !.op = "EnsureBucket"]
            /\ epc' = epc
       ELSE /\ sres' = [After(sres) EXCEPT !.op = "HeadBucket", !.err = "failed", !.fault = fault]
            /\ epc' = "create"
  /\ UNCHANGED <<bucket, objects>>
  /\ UNCHANGED <<storeVars, mapVars, insts, restoreVars, procVars, ingestVars>>

\* the error code CreateBucket answers with
CreateCodes(fault) ==
  IF fault THEN {"RequestError", "AccessDenied"}
  ELSE IF bucket = "absent" THEN {"ok"}
  ELSE IF bucket = "mine" THEN {"ok", "BucketAlreadyOwnedByYou"}
  ELSE {"BucketAlreadyExists"}

\* what EnsureBucket returns after CreateBucket
EnsureResult_AnyError(code) == "ok"

EnsureResult(code) ==
  IF code \in {"ok", "BucketAlreadyOwnedByYou", "BucketAlreadyExists"} THEN "ok" ELSE code

EnsureBucket_Create ==
  /\ epc = "create"
  /\ \E fault \in BOOLEAN : \E code \in CreateCodes(fault) :
       /\ bucket' = IF code = "ok" THEN "mine" ELSE bucket
       /\ sres' = [sres EXCEPT !.op = "EnsureBucket", !.err = EnsureResult(code),
                                !.create = code, !.fault = fault \/ sres.fault]
  /\ epc' = "idle"
  /\ UNCHANGED <<objects, nsop>>
  /\ UNCHANGED <<storeVars, mapVars, insts, restoreVars, procVars, ingestVars>>

\* another account creates a bucket of the same name
OtherCreatesBucket ==
  /\ bucket = "absent"
  /\ bucket' = "other"
  /\ UNCHANGED <<objects, sres, epc, nsop>>
  /\ UNCHANGED <<storeVars, mapVars, insts, restoreVars, procVars, ingestVars>>

\* O3Client.PutObject
PutObject ==
  /\ batcherOn
  /\ epc = "idle"
  /\ nsop < MaxStorageOps
  /\ nsop' = nsop + 1
  /\ \E key \in Keys, data \in Blobs, fault \in BOOLEAN :
       LET err == IF fault THEN "RequestError"
                  ELSE IF bucket = "absent" THEN "NoSuchBucket"
                  ELSE IF bucket = "other" THEN "AccessDenied"
                  ELSE "ok"
       IN /\ objects' = IF err = "ok" THEN [objects EXCEPT ![key] = data] ELSE objects
          /\ sres' = [After(sres) EXCEPT !.op = "PutObject", !.key = key, !.err = err,
                                    !.fault = fault]
  /\ UNCHANGED <<bucket, epc>>
  /\ UNCHANGED <<storeVars, mapVars, insts, restoreVars, procVars, ingestVars>>

\* GET /uploads/content?key=K
UploadsContent ==
  /\ epc = "idle"
  /\ nsop < MaxStorageOps
  /\ nsop' = nsop + 1
  /\ \E key \in Keys \cup {""}, fault \in BOOLEAN :
       IF ~batcherOn \/ key = ""
       THEN sres' = [After(sres) EXCEPT !.op = "UploadsContent", !.key = key, !.status = 400]
       ELSE LET got == GetObjectLogs(key, fault)
            IN sres' = [After(sres) EXCEPT !.op = "UploadsContent", !.key = key,
                                      !.err = got.err, !.entries = got.entries,
                                      !.status = IF got.err # "ok" THEN 500 ELSE 200,
                                      !.fault = fault]
  /\ UNCHANGED <<bucket, objects, epc>>
  /\ UNCHANGED <<storeVars, mapVars, insts, restoreVars, procVars, ingestVars>>

(***************************************************************************)
(* Specifications.                                                         *)
(***************************************************************************)
Listener ==
  \E i \in 1..Len(insts) :
    \/ ListenAndServe_Check(i)
    \/ ListenAndServe_Listen(i)
    \/ ListenAndServe_Serve(i)

Restore ==
  \/ RestoreInputs_List
  \/ RestoreInputs_Row
  \/ RestoreInputs_Insert
  \/ RestoreInputs_Done

Handler(p, Ts, Ls) ==
  \/ CreateInput_Validate(p, CreateReqs(Ts, Ls))
  \/ CreateInput_Check(p)
  \/ CreateInput_Persist(p)
  \/ CreateInput_Runtime(p)
  \/ CreateInput_Lock(p)
  \/ CreateInput_Insert(p)
  \/ UpdateInput_Get(p, UpdateReqs(Ls, ReqDescriptions, ReqConfigs))
  \/ UpdateInput_Lock(p)
  \/ UpdateInput_Stop(p)
  \/ UpdateInput_Check(p)
  \/ UpdateInput_Persist(p)
  \/ UpdateInput_Runtime(p)
  \/ UpdateInput_Lock2(p)
  \/ UpdateInput_Insert(p)
  \/ DeleteInput_Get(p)
  \/ DeleteInput_Lock(p)
  \/ DeleteInput_Stop(p)
  \/ DeleteInput_Delete(p)
  \/ ListInputs_List(p)
  \/ ListInputs_Lock(p)
  \/ ListInputs_Read(p)

\* requests served in parallel
Next ==
  \/ Restore
  \/ Listener
  \/ \E p \in Procs : Handler(p, ParTypes, ParListens)

Spec == Init /\ [][Next]_vars

\* requests served one at a time
NextSeq ==
  \/ Restore
  \/ Listener
  \/ Handler(SeqProc, ReqTypes, ReqListens)

\* no two http rows share a listen string
UniqueListen(st) ==
  \A i \in DOMAIN st, j \in DOMAIN st :
     (/\ i # j
      /\ st[i].type = "http" /\ st[j].type = "http"
      /\ Has(st[i].cfg, "listen") /\ Has(st[j].cfg, "listen"))
     => st[i].cfg["listen"] # st[j].cfg["listen"]

\* rows left by earlier runs, when requests are served one at a time
SeqTemplates ==
  { [type |-> "http", cfg |-> HttpCfg(L1)],
    [type |-> "syslog", cfg |-> HttpCfg(L1)] }

InitSeq == InitWith(MaxInitRows, SeqTemplates) /\ UniqueListen(store)

SpecSeq == InitSeq /\ [][NextSeq]_vars

\* startup alone, over more persisted rows
InitRestore == InitWith(MaxRestoreRows, RowTemplates)

NextRestore ==
  \/ Restore
  \/ Listener

SpecRestore == InitRestore /\ [][NextRestore]_vars

\* the ingest path alone: requests to serving inputs, the buffer, the batcher
CfgSizes == {0, 1}

InitIngest ==
  /\ ControllerInit(0, {})
  /\ \E on \in BOOLEAN, z \in CfgSizes : IngestInit(on, z)
  /\ StorageInit({"mine"})

InputHandler(c, Rs) ==
  \/ Handler_Begin(c, Rs)
  \/ Handler_InsertLock(c)
  \/ Handler_InsertAppend(c)
  \/ Handler_InsertBatcher(c)
  \/ Handler_Respond(c)

NextIngest == \E c \in Conns : InputHandler(c, IngestReqs)

SpecIngest == InitIngest /\ [][NextIngest]_vars

\* the buffer and its consumer: the requests differ in the payloads they insert
BatcherReqs ==
  {r \in IngestReqs : r.readOk /\ r.body \in {EmptyBody, EntryBody, PartialBody}}

InitBatcher == InitIngest

BatcherTask ==
  \/ Batcher_Size
  \/ Batcher_Parse
  \/ Batcher_Upload

\* a second client that sends bodiless requests
PingReqs == {r \in BatcherReqs : r.body = EmptyBody}

NextBatcher ==
  \/ InputHandler("c1", BatcherReqs)
  \/ InputHandler("c2", PingReqs)
  \/ BatcherTask
  \/ Batcher_Tick

SpecBatcher == InitBatcher /\ [][NextBatcher]_vars

\* the batcher when the interval timer never fires: the background task is
\* a goroutine of its own, so a step of it that stays possible is taken
NextSizeFlush ==
  \/ InputHandler("c1", BatcherReqs)
  \/ BatcherTask

SpecSizeFlush == InitBatcher /\ [][NextSizeFlush]_vars /\ WF_vars(BatcherTask)

\* the batcher with its interval timer: the timer fires again and again
\* while the background task waits
NextTick ==
  \/ InputHandler("c1", BatcherReqs)
  \/ BatcherTask
  \/ Batcher_Tick

SpecTick ==
  InitBatcher /\ [][NextTick]_vars /\ WF_vars(BatcherTask) /\ WF_vars(Batcher_Tick)

\* the batcher and Server.Shutdown: the inputs are not stopped by Shutdown,
\* so requests go on while the batcher stops
InitStop ==
  /\ ControllerInit(0, {})
  /\ \E z \in CfgSizes : IngestInit(TRUE, z)
  /\ StorageInit({"mine"})

StopReqs == {r \in BatcherReqs : r.method = "POST"}

NextStop ==
  \/ Handler_Begin("c1", StopReqs)
  \/ Handler_InsertBatcher("c1")
  \/ Handler_Respond("c1")
  \/ BatcherTask
  \/ Batcher_Stop
  \/ Batcher_Drain

SpecStop ==
  InitStop /\ [][NextStop]_vars /\ WF_vars(BatcherTask) /\ WF_vars(Batcher_Drain)

\* the O3Client used by server.New, the batcher and GET /uploads/content
InitStorage ==
  /\ ControllerInit(0, {})
  /\ \E on \in BOOLEAN : IngestInit(on, 0)
  /\ StorageInit({"absent", "mine", "other"})

NextStorage ==
  \/ EnsureBucket_Head
  \/ EnsureBucket_Create
  \/ OtherCreatesBucket
  \/ PutObject
  \/ UploadsContent

SpecStorage == InitStorage /\ [][NextStorage]_vars


\* UpdateInput alone, one request at a time, over configurations with more
\* keys: rows that carry a description, updates that set listen and
\* description through the convenience fields and through the config object
D0 == <<"d", "0">>
D1 == <<"d", "1">>
D2 == <<"d", "2">>
T1 == <<"t", "1">>

UpdateTemplates ==
  { [type |-> "http", cfg |-> HttpCfg(L1)],
    [type |-> "http", cfg |-> Put(HttpCfg(L2), "description", D0)] }

UpdateListens == {EmptyStr, L2}
UpdateDescriptions == {EmptyStr, D1}
UpdateConfigs ==
  { EmptyCfg,
    Put(EmptyCfg, "listen", L1),
    Put(Put(EmptyCfg, "description", D2), "tag", T1) }

InitUpdate == InitWith(MaxInitRows, UpdateTemplates) /\ UniqueListen(store)

NextUpdate ==
  \/ Restore
  \/ UpdateInput_Get(SeqProc, UpdateReqs(UpdateListens, UpdateDescriptions, UpdateConfigs))
  \/ UpdateInput_Lock(SeqProc)
  \/ UpdateInput_Stop(SeqProc)
  \/ UpdateInput_Check(SeqProc)
  \/ UpdateInput_Persist(SeqProc)
  \/ UpdateInput_Runtime(SeqProc)
  \/ UpdateInput_Lock2(SeqProc)
  \/ UpdateInput_Insert(SeqProc)

SpecUpdate == InitUpdate /\ [][NextUpdate]_vars

\* the API served one request at a time over a database that may fail any
\* repository call
FaultTypes == {"http"}
FaultListens == {L1, L2}

InitFault ==
  /\ ControllerInitDb(MaxInitRows, SeqTemplates, {TRUE})
  /\ IngestInit(FALSE, 0)
  /\ StorageInit({"mine"})
  /\ UniqueListen(store)

NextFault ==
  \/ Restore
  \/ Handler(SeqProc, FaultTypes, FaultListens)

SpecFault == InitFault /\ [][NextFault]_vars

\* CreateInput alone, one request at a time
NextCreate ==
  \/ Restore
  \/ CreateInput_Validate(SeqProc, CreateReqs(ReqTypes, ReqListens))
  \/ CreateInput_Check(SeqProc)
  \/ CreateInput_Persist(SeqProc)
  \/ CreateInput_Runtime(SeqProc)
  \/ CreateInput_Lock(SeqProc)
  \/ CreateInput_Insert(SeqProc)

SpecCreate == InitSeq /\ [][NextCreate]_vars

\* the API served one request at a time, over listen strings that pass
\* Factory.ValidateConfig: plain, with two colons, and with a leading space
LPadded == <<" ", ":", "1">>
ListenSamples == {L1, LTwoColons, LPadded}

NextListen ==
  \/ Restore
  \/ Handler(SeqProc, {"http"}, ListenSamples)

SpecListen == InitSeq /\ [][NextListen]_vars

\* CreateInput alone, one request at a time, with and without a title
TitleSamples == {EmptyStr, TitleText}

NextTitle ==
  \/ Restore
  \/ CreateInput_Validate(SeqProc, CreateReqsTitled({"", "http"}, {EmptyStr, L1, L2}, TitleSamples))
  \/ CreateInput_Check(SeqProc)
  \/ CreateInput_Persist(SeqProc)
  \/ CreateInput_Runtime(SeqProc)
  \/ CreateInput_Lock(SeqProc)
  \/ CreateInput_Insert(SeqProc)

SpecTitle == InitSeq /\ [][NextTitle]_vars

\* requests sent to the input's own listener, to its path and to another one
OtherPath == <<"/", "x">>

PathReqs ==
  {r \in IngestReqs : r.method = "POST" /\ r.readOk /\ r.body \in {EmptyBody, TextBody}}
    \cup {[r EXCEPT !.path = OtherPath] :
            r \in {q \in IngestReqs : q.method = "POST" /\ q.readOk /\ q.body = TextBody}}

NextPath == \E c \in Conns : InputHandler(c, PathReqs)

SpecPath == InitIngest /\ [][NextPath]_vars

\* bodies around the limit of the raw-request record: n bytes, those beyond
\* the limit different from those within
LongBody(n) == [i \in 1..n |-> IF i <= maxBodyInRawLog THEN "a" ELSE "b"]

BoundaryBodies ==
  {TextBody, LongBody(maxBodyInRawLog - 1), LongBody(maxBodyInRawLog),
   LongBody(maxBodyInRawLog + 1), LongBody(maxBodyInRawLog + 2)}

BoundaryReqs ==
  [method : {"POST"}, path : {Ingest}, headers : {ReqHeader}, body : BoundaryBodies,
   readOk : {TRUE}]

NextBody == InputHandler("c1", BoundaryReqs)

SpecBody == InitIngest /\ [][NextBody]_vars


\* one caller that builds instances and calls Start and Stop on them, while
\* the goroutines of Start run
MaxCalls == 4

Input_New ==
  /\ nreq < MaxCalls
  /\ nreq' = nreq + 1
  /\ \E l \in {EmptyStr, L1} :
       insts' = Append(insts, NewInput(Len(insts) + 1, l))
  /\ UNCHANGED <<storeVars, mapVars, restoreVars, ingestVars, storageVars, pc, req, loc, resp>>

\* Start, called once on an instance
Input_Start ==
  /\ nreq < MaxCalls
  /\ nreq' = nreq + 1
  /\ \E i \in 1..Len(insts) :
       /\ ~insts[i].server
       /\ insts' = [insts EXCEPT ![i] = InputStart(insts[i])]
  /\ UNCHANGED <<storeVars, mapVars, restoreVars, ingestVars, storageVars, pc, req, loc, resp>>

Input_Stop ==
  /\ nreq < MaxCalls
  /\ nreq' = nreq + 1
  /\ \E i \in 1..Len(insts) :
       insts' = [insts EXCEPT ![i] = InputStop(insts[i])]
  /\ UNCHANGED <<storeVars, mapVars, restoreVars, ingestVars, storageVars, pc, req, loc, resp>>

NextInstance ==
  \/ Input_New
  \/ Input_Start
  \/ Input_Stop
  \/ Listener

SpecInstance == InitWith(0, {}) /\ [][NextInstance]_vars
\* endpoints mounted on a mux, as the tests of the http input do
InitMount ==
  /\ ControllerInit(0, {})
  /\ IngestInit(FALSE, 0)
  /\ StorageInit({"mine"})

NextMount ==
  \/ MountHTTPEndpoints
  \/ Mux_ServeHTTP("c1")
  \/ Handler_InsertLock("c1")
  \/ Handler_InsertAppend("c1")
  \/ Handler_Respond("c1")

SpecMount == InitMount /\ [][NextMount]_vars

(***************************************************************************)
(* Properties.                                                             *)
(***************************************************************************)
HttpRows == {id \in DOMAIN store : store[id].type = "http"}

Done(p, op, status) ==
  /\ pc[p] = "idle"
  /\ req[p].op = op
  /\ resp[p].status = status

\* C1: two CreateInput requests for type http with the same listen that run
\* in parallel cannot both succeed: at most one of them returns 201 and has
\* its row in the store.
C1_ParallelCreatesExclusive ==
  \A p \in Procs, q \in Procs :
     (/\ p # q
      /\ Done(p, "create", 201) /\ Done(q, "create", 201)
      /\ req[p].type = "http" /\ req[q].type = "http"
      /\ req[p].listen = req[q].listen
      /\ resp[p].id \in DOMAIN store /\ resp[q].id \in DOMAIN store)
     => store[resp[p].id].cfg["listen"] # store[resp[q].id].cfg["listen"]

\* C2: when requests are served one at a time, the store never holds two
\* rows of type http whose configuration.listen strings are equal.
C2_UniqueListenSequential == UniqueListen(store)

C2_Witness ==
  /\ Done(SeqProc, "create", 409)
  /\ \E i \in HttpRows, j \in HttpRows :
        /\ i # j
        /\ Has(store[i].cfg, "listen") /\ Has(store[j].cfg, "listen")

\* C3: a CreateInput for type http whose listen equals the listen of an http
\* row of the store is answered 409; it has persisted no row and created no
\* instance before the check, and the step that answers changes neither the
\* store, nor the Instance Map, nor any instance.
C3_ConflictRejected ==
  /\ [](\A p \in Procs : pc[p] = "c_check" => loc[p].in = NoRow /\ loc[p].run = 0)
  /\ [][\A p \in Procs :
          (/\ pc[p] = "c_check"
           /\ pc'[p] # "c_check"
           /\ req[p].type = "http"
           /\ \E id \in HttpRows :
                 /\ Has(store[id].cfg, "listen")
                 /\ store[id].cfg["listen"] = loc[p].cfg["listen"])
          => (/\ pc'[p] = "idle"
              /\ resp'[p].status = 409
              /\ store' = store
              /\ Instances' = Instances
              /\ insts' = insts)]_vars

C3_Witness ==
  \E p \in Procs :
     /\ Done(p, "create", 409)
     /\ \E id \in HttpRows : GetStr(store[id].cfg, "listen") = req[p].listen

\* a listen value of the form host:port: a host without colon, a colon and
\* one to five digits
IsHostPort(l) ==
  \E i \in 1..Len(l) :
     /\ l[i] = ":"
     /\ \A j \in 1..(i - 1) : l[j] # ":"
     /\ Len(l) - i \in 1..5
     /\ \A j \in (i + 1)..Len(l) : l[j] \in Digits

\* the requests CreateInput must refuse as BadRequest
BadCreate(r) ==
  \/ r.type = ""
  \/ r.type = "http" /\ r.listen = EmptyStr /\ ~Has(r.config, "listen")
  \/ r.type = "http" /\ r.listen # EmptyStr /\ ~IsHostPort(r.listen)

\* C4: CreateInput returns 400 when type is missing, when type is http and
\* listen is missing, and when listen is not a valid host:port: the answer to
\* such a request is 400 and names no input.
C4_BadRequestRejected ==
  \A p \in Procs :
     (pc[p] = "idle" /\ req[p].op = "create" /\ BadCreate(req[p]))
     => (resp[p].status = 400 /\ resp[p].id = 0)

\* C5: Input.Start returns success only after the listener socket has been
\* bound, and CreateInput answers 500 and inserts nothing when the address
\* cannot be bound: a CreateInput that is past run.Start() holds an instance
\* that has bound its listen address, and so does the Instance Map entry of
\* an input CreateInput has answered 201 for.
C5_StartReturnsAfterBind ==
  \A p \in Procs :
     /\ pc[p] \in {"c_lock", "c_insert"} => insts[loc[p].run].everBound
     /\ (Done(p, "create", 201) /\ resp[p].id \in DOMAIN Instances)
        => insts[Instances[resp[p].id]].everBound

\* C6: once DeleteInput has returned for an input, the row is gone from the
\* store, the Instance Map has no entry for the id, and no instance created
\* for the input holds its listen port.
C6_DeleteReleasesPort ==
  \A p \in Procs :
     Done(p, "delete", 200)
     => (/\ req[p].id \notin DOMAIN store
         /\ req[p].id \notin DOMAIN Instances
         /\ \A i \in 1..Len(insts) : insts[i].owner = req[p].id => ~Listening(i))

\* an earlier instance of the input listened on another address
Relocated(id) ==
  /\ id \in DOMAIN Instances
  /\ \E i \in 1..Len(insts) :
        /\ insts[i].owner = id
        /\ i # Instances[id]
        /\ insts[i].listenAddr # insts[Instances[id]].listenAddr

\* C7: once an UpdateInput that changes listen from A to B has returned 200,
\* the Instance Map holds one entry for the id, the instance of that entry
\* listens on B, the address now persisted, and no earlier instance of the
\* input (in particular the one on A) listens any more.
C7_UpdateRelocatesListener ==
  \A p \in Procs :
     (Done(p, "update", 200) /\ req[p].id \in DOMAIN store /\ Relocated(req[p].id))
     => (/\ req[p].id \in DOMAIN Instances
         /\ LET cur == Instances[req[p].id]
            IN /\ insts[cur].listenAddr = store[req[p].id].cfg["listen"]
               /\ Listening(cur)
               /\ \A i \in 1..Len(insts) :
                     (insts[i].owner = req[p].id /\ i # cur) => ~Listening(i))

\* C8: UpdateInput never changes an input's id or created_at: every row of
\* the store carries the id it is stored under and the created_at it was
\* inserted with, and the view returned by a successful update carries the
\* id of the request and that created_at.
C8_UpdatePreservesIdentity ==
  /\ \A id \in DOMAIN store : store[id].id = id /\ store[id].created_at = born[id]
  /\ \A p \in Procs :
        Done(p, "update", 200)
        => (resp[p].id = req[p].id /\ resp[p].created_at = born[req[p].id])

C8_Witness ==
  \E p \in Procs :
     /\ Done(p, "update", 200)
     /\ req[p].id \in DOMAIN store
     /\ req[p].id \in DOMAIN Instances
     /\ clock > born[req[p].id]

\* C9: after RestoreInputs has run, an http row that has a listen value from
\* which an instance can be created has a started instance of its own in the
\* Instance Map, and http rows without listen, rows whose instance cannot be
\* created and rows of other types have no entry: a failure on one row does
\* not keep a later row from being restored.
C9_RestoreBestEffort ==
  phase = "serving"
  => /\ DOMAIN Instances \subseteq DOMAIN store
     /\ \A id \in DOMAIN store :
           LET row == store[id]
               restorable == /\ row.type = "http"
                             /\ Has(row.cfg, "listen")
                             /\ TrimSpace(row.cfg["listen"]) # EmptyStr
           IN /\ restorable <=> id \in DOMAIN Instances
              /\ id \in DOMAIN Instances
                 => /\ insts[Instances[id]].owner = id
                    /\ insts[Instances[id]].server
                    /\ insts[Instances[id]].listenAddr = row.cfg["listen"]

C9_Witness ==
  /\ phase = "serving"
  /\ nreq = 0
  /\ \E a \in DOMAIN store, b \in DOMAIN store :
        /\ store[a].created_at > store[b].created_at
        /\ store[a].type = "http"
        /\ Has(store[a].cfg, "listen")
        /\ TrimSpace(store[a].cfg["listen"]) = EmptyStr
        /\ b \in DOMAIN Instances

\* the positions at which a handler reads or writes h.Instances
MapAccessPcs == {"c_insert", "u_stop", "u_insert", "d_stop", "l_read"}

\* C10: every read and write of the Instance Map by ListInputs, CreateInput,
\* UpdateInput, DeleteInput and RestoreInputs happens while InstancesMu is
\* held by the one that accesses the map.
C10_MapAccessUnderMutex ==
  /\ ~unguarded
  /\ \A p \in Procs : pc[p] \in MapAccessPcs => InstancesMu = p

C10_Witness ==
  \E p \in Procs, q \in Procs :
     /\ p # q
     /\ pc[p] \in MapAccessPcs
     /\ pc[q] \in {"c_lock", "u_lock", "u_lock2", "d_lock", "l_lock"}
     /\ Instances # EmptyMap

(***************************************************************************)
(* Properties of the ingest path.                                          *)
(***************************************************************************)
\* the payloads in the buffer, oldest first
Buffered == IF batcherOn THEN queue ELSE logs

\* the payloads request number n has inserted so far, in buffer order
InsertedBy(n) ==
  LET ofReq(it) == it.req = n
      its == SelectSeq(Buffered, ofReq)
  IN [i \in 1..Len(its) |-> its[i].bytes]

\* bytes is the structured record of request r
IsRawRecordOf(bytes, r) ==
  /\ bytes.fmt = "json"
  /\ bytes.obj.service = "ingest"
  /\ bytes.obj.raw_request.method = r.method
  /\ bytes.obj.raw_request.path = r.path
  /\ bytes.obj.raw_request.body = r.body

\* C11: a request that is not OPTIONS and whose body was read inserts the
\* structured record (service "ingest", raw_request set) first and then, only
\* for a non-empty body, the body bytes themselves: one insert for an empty
\* body, two otherwise, done by the time the answer is written, and the
\* answer is 202; an OPTIONS request or a failed read inserts nothing.
C11_TwoRecordsPerRequest ==
  /\ [](\A c \in Conns :
          LET ins == InsertedBy(hloc[c].req)
              r == hreq[c]
          IN /\ hpc[c] = "insert_raw" => ins = <<>>
             /\ hpc[c] = "insert_body"
                  => Len(r.body) > 0 /\ Len(ins) = 1 /\ IsRawRecordOf(ins[1], r)
             /\ hpc[c] = "respond"
                  => /\ Len(ins) = (IF Len(r.body) > 0 THEN 2 ELSE 1)
                     /\ IsRawRecordOf(ins[1], r)
                     /\ Len(r.body) > 0 => ins[2] = Text(r.body))
  /\ [][\A c \in Conns :
          /\ (hpc[c] = "respond" /\ hpc'[c] # "respond")
               => hresp'[c] = 202 /\ Buffered' = Buffered
          /\ (hpc[c] # "idle" /\ hresp'[c] # hresp[c]) => hresp'[c] = 202
          /\ (hpc[c] = "idle" /\ hpc'[c] = "idle" /\ hresp'[c] # hresp[c])
               => hresp'[c] \in {204, 400} /\ Buffered' = Buffered]_vars

C11_Witness ==
  \E c \in Conns :
    /\ hpc[c] = "respond"
    /\ Len(hreq[c].body) > 0
    /\ Len(InsertedBy(hloc[c].req)) = 2
    /\ hpc[CHOOSE d \in Conns : d # c] = "idle"
    /\ hresp[CHOOSE d \in Conns : d # c] = 202

\* the spec of the claim: an http input with a description and a base_path
IsEndpointSpec(sp) ==
  /\ sp.type = "http"
  /\ sp.description # EmptyStr
  /\ Has(sp.config, "base_path")
  /\ ~Has(sp.config, "listen")

\* C12: for an http input created from a spec with description d and
\* base_path p and mounted through MountHTTPEndpoints, a POST with a
\* non-empty body b to p/d is answered 202 and the most recently inserted
\* buffer payload is b, byte for byte.
C12_MountedEndpointAccepts ==
  \A c \in Conns :
    ( /\ Len(mspecs) = 1
      /\ IsEndpointSpec(mspecs[1])
      /\ mreq[c] # NoHReq
      /\ mreq[c].method = "POST"
      /\ mreq[c].path = EndpointOf(mspecs[1])
      /\ mreq[c].body # EmptyBody
      /\ hpc[c] = "idle" )
    => /\ hresp[c] = 202
       /\ logs # <<>>
       /\ logs[Len(logs)].bytes = Text(mreq[c].body)
\* the ids of a sequence of payloads or entries; a payload's id is its rank
\* among the Insert calls, in the order they took the buffer
IdsOf(s) == [i \in 1..Len(s) |-> s[i].id]

RECURSIVE UploadedIds(_)
UploadedIds(us) ==
  IF us = <<>> THEN <<>> ELSE IdsOf(Head(us).batch) \o UploadedIds(Tail(us))

\* the payloads from the oldest upload attempt to the newest queued one
Stream == UploadedIds(uploads) \o IdsOf(batch) \o IdsOf(taken) \o IdsOf(queue)

\* C13: payloads keep their arrival order end to end: the buffer holds them
\* in the order of their Insert calls, and the batches, in upload order and
\* followed by what is still queued, are the inserted payloads in that order.
C13_ArrivalOrderKept ==
  IF batcherOn
  THEN Stream = [i \in 1..nins |-> i]
  ELSE /\ IdsOf(logs) = [i \in 1..Len(logs) |-> i]
       /\ Len(logs) \in {nins, nins - 1}

C13_Witness ==
  /\ batcherOn
  /\ Len(uploads) >= 2
  /\ uploads[1].batch # <<>>
  /\ uploads[2].batch # <<>>
  /\ queue # <<>>
\* the MaxBatchSize the batcher is configured with
ConfiguredMaxBatchSize ==
  IF cfgMaxBatchSize > 0 THEN cfgMaxBatchSize ELSE DefaultMaxBatchSize

PayloadIds == 1..(2 * MaxIngest)

Attempted == {UploadedIds(uploads)[i] : i \in 1..Len(UploadedIds(uploads))}

Queued == {queue[i].id : i \in 1..Len(queue)}

\* C14: once the queue holds MaxBatchSize payloads, the payloads in it become
\* part of an upload attempt although the interval timer never fires.
C14_SizeTriggersFlush ==
  \A id \in PayloadIds :
    (batcherOn /\ id \in Queued /\ Len(queue) >= ConfiguredMaxBatchSize)
      ~> (id \in Attempted)

C14_Witness ==
  /\ batcherOn
  /\ cfgMaxBatchSize = 1
  /\ Len(uploads) = 2
  /\ Len(uploads[1].batch) = 1
  /\ bpc = "wait"
  /\ queue = <<>>
\* C15: when FlushInterval elapses with a payload pending the batcher
\* flushes, so again and again every payload inserted so far is part of an
\* upload attempt; when it elapses with nothing pending, nothing is uploaded
\* and the status store is unchanged.
C15_IntervalFlush ==
  /\ []<>(batcherOn => Attempted = 1..nins)
  /\ [][(bpc = "wait" /\ queue = <<>> /\ bpc' = "wait" /\ wake' # wake)
          => /\ uploads' = uploads
             /\ upStatus' = upStatus
             /\ pending' = pending
             /\ queue' = <<>>
             /\ taken' = taken]_vars
  /\ [][(bpc = "wait" /\ queue # <<>> /\ Len(queue) < bc /\ bpc' # "wait")
          => taken' = queue /\ queue' = <<>>]_vars

C15_Witness ==
  /\ batcherOn
  /\ bc = 2
  /\ wake = "tick"
  /\ Len(uploads) = 1
  /\ Len(uploads[1].batch) = 1
  /\ queue = <<>>
\* the last upload attempt failed
LastFailed(us) == us # <<>> /\ ~us[Len(us)].ok

\* C16: when an upload fails, the payloads of its batch are in the queue no
\* more and are never part of another attempt, the last_upload_* values of
\* the status store stay as they were, and the batcher keeps running: what
\* is queued afterwards is taken by a later flush.
C16_FailedUploadDropped ==
  /\ [][(Len(uploads') > Len(uploads) /\ LastFailed(uploads'))
          => /\ upStatus' = upStatus
             /\ batch' = <<>>
             /\ bpc' \in {"parse", "wait"}
             /\ \A i \in 1..Len(batch) :
                  batch[i].id \notin {queue'[k].id : k \in 1..Len(queue')}
                                   \cup {taken'[k].id : k \in 1..Len(taken')}]_vars
  /\ [](\A i, j \in 1..Len(uploads) :
          i # j => \A k \in 1..Len(uploads[i].batch), l \in 1..Len(uploads[j].batch) :
                     uploads[i].batch[k].id # uploads[j].batch[l].id)
  /\ (batcherOn /\ LastFailed(uploads) /\ queue # <<>>) ~> (queue = <<>>)

C16_Witness ==
  /\ Len(uploads) = 3
  /\ uploads[1].ok
  /\ ~uploads[2].ok
  /\ uploads[3].ok
  /\ upStatus.last_upload_key = uploads[3].key
\* the batch a parse step has just produced from the payloads ps
IsBatchOf(es, ps, now) ==
  /\ Len(es) = Len(ps)
  /\ \A i \in 1..Len(ps) :
       /\ es[i].id = ps[i].id
       /\ (ps[i].bytes.fmt = "text" /\ ~IsEntryJSON(ps[i].bytes.text))
            => /\ es[i].entry.service = "raw"
               /\ es[i].entry.level = "info"
               /\ es[i].entry.message = ps[i].bytes.text
               /\ es[i].entry.timestamp = now
       /\ ps[i].bytes.fmt = "json" => es[i].entry = ps[i].bytes.obj
       /\ (ps[i].bytes.fmt = "text" /\ IsEntryJSON(ps[i].bytes.text))
            => es[i].entry.service # "raw"

\* C17: on a flush every payload taken from the queue produces exactly one
\* entry of the batch, a payload that is not a log entry being wrapped as
\* service "raw", level "info" with the payload text as message: the batch
\* is as long as the payloads taken.
C17_OneEntryPerPayload ==
  [][(bpc = "parse" /\ bpc' = "upload")
       => /\ IsBatchOf(batch', SubSeq(taken, 1, Len(taken) - Len(taken')), clock)
          /\ taken' = SubSeq(taken, Len(batch') + 1, Len(taken))
          /\ wake # "stop" => (Len(batch') = Len(taken) /\ taken' = <<>>)]_vars

C17_Witness ==
  /\ bpc = "upload"
  /\ Len(batch) = 2
  /\ batch[1].entry.service = "ingest"
  /\ batch[2].entry.service = "raw"
  /\ batch[2].entry.message = PartialBody
\* C18: Batcher.Stop terminates, and when it returns every payload inserted
\* before Stop was called is part of an upload attempt: the final drain
\* takes the whole queue, leaving it empty, and uploads what it took in
\* batches of at most MaxBatchSize entries.
C18_StopDrains ==
  /\ stopping ~> (bpc = "stopped")
  /\ [](bpc = "stopped"
          => /\ atStop \subseteq Attempted
             /\ Queued \cap atStop = {}
             /\ taken = <<>>
             /\ batch = <<>>
             /\ (nins = Cardinality(atStop) => queue = <<>>))
  /\ [](\A i \in 1..Len(uploads) : uploads[i].drain => Len(uploads[i].batch) <= bc)
  /\ [][(wake' = "stop" /\ wake # "stop") => (queue' = <<>> /\ taken' = queue)]_vars

C18_Witness ==
  /\ bpc = "stopped"
  /\ Cardinality(atStop) = 2
  /\ Len(uploads) = 2
  /\ uploads[1].drain
  /\ uploads[2].drain
  /\ queue = <<>>
Min(a, b) == IF a < b THEN a ELSE b

\* the last n elements of s
LastN(s, n) == SubSeq(s, Len(s) - n + 1, Len(s))

\* C19: while the upload of a batch is in flight, GetRecent already returns
\* the entries of that batch (as many of its last ones as the ring holds).
C19_RingBeforeUpload ==
  bpc = "upload"
    => /\ Len(GetRecent(ring)) >= Min(Len(batch), RecentCapacity)
       /\ LastN(GetRecent(ring), Min(Len(batch), RecentCapacity))
            = LastN(batch, Min(Len(batch), RecentCapacity))

C19_Witness ==
  /\ bpc = "upload"
  /\ Len(uploads) = 1
  /\ Len(batch) = 1
  /\ Len(GetRecent(ring)) = 2
  /\ GetRecent(ring)[2] = batch[1]
\* C20: after any sequence of AddEntry calls GetRecent returns at most N
\* entries, all of them passed to AddEntry before, in insertion order: they
\* are the most recent min(N, total) entries added.
C20_RingKeepsMostRecent ==
  /\ Len(GetRecent(ring)) <= RecentCapacity
  /\ Len(GetRecent(ring)) = Min(RecentCapacity, Len(added))
  /\ GetRecent(ring) = LastN(added, Min(RecentCapacity, Len(added)))

C20_Witness ==
  /\ Len(added) = RecentCapacity + 2
  /\ GetRecent(ring) = LastN(added, RecentCapacity)
  /\ GetRecent(ring)[1] # added[1]
\* the index of the last successful upload attempt, 0 when there is none
RECURSIVE LastOk(_, _)
LastOk(us, n) ==
  IF n = 0 THEN 0 ELSE IF us[n].ok THEN n ELSE LastOk(us, n - 1)

\* C21: after a successful upload last_upload_count is the number of entries
\* of the batch just uploaded and last_upload_key is the key it was stored
\* under; these fields change on successful uploads only.
C21_StatusFollowsUploads ==
  /\ [](LET n == LastOk(uploads, Len(uploads))
        IN IF n = 0
           THEN /\ LogsStatus.last_upload_count = NoStatus.last_upload_count
                /\ LogsStatus.last_upload_key = NoStatus.last_upload_key
           ELSE /\ LogsStatus.last_upload_count = Len(uploads[n].batch)
                /\ LogsStatus.last_upload_key = uploads[n].key)
  /\ [][upStatus' # upStatus
          => /\ Len(uploads') = Len(uploads) + 1
             /\ uploads'[Len(uploads')].ok
             /\ uploads'[Len(uploads')].batch = batch]_vars

C21_Witness ==
  /\ Len(uploads) = 3
  /\ uploads[1].ok
  /\ uploads[2].ok
  /\ ~uploads[3].ok
  /\ Len(uploads[1].batch) = 1
  /\ Len(uploads[2].batch) = 2
  /\ LogsStatus.last_upload_count = 2
  /\ LogsStatus.last_upload_key = uploads[2].key
\* C22: pending_count always is the number of payloads inserted into the
\* batcher and not yet taken by a flush: each Insert increments it by one
\* and each flush decreases it by the number of entries it took.
C22_PendingCountsQueue ==
  batcherOn => LogsStatus.pending_count = Len(queue)
\* C23: EnsureBucket returns success when HeadBucket succeeds; after a failed
\* HeadBucket it calls CreateBucket and returns success if that succeeds or
\* answers BucketAlreadyOwnedByYou or BucketAlreadyExists, and the create
\* error otherwise; so on a store that answers, every call succeeds, the
\* second of two calls in a row too.
C23_EnsureBucketIdempotent ==
  /\ [][(epc = "idle" /\ sres'.op = "EnsureBucket" /\ nsop' # nsop)
          => /\ bucket = "mine"
             /\ sres'.err = "ok"
             /\ sres'.create = "none"
             /\ bucket' = bucket]_vars
  /\ [][(epc = "create" /\ epc' = "idle")
          => /\ sres'.op = "EnsureBucket"
             /\ sres'.create # "none"
             /\ sres'.err = IF sres'.create \in {"ok", "BucketAlreadyOwnedByYou",
                                                  "BucketAlreadyExists"}
                            THEN "ok" ELSE sres'.create]_vars
  /\ []((sres.op = "EnsureBucket" /\ ~sres.fault) => (sres.err = "ok" /\ bucket # "absent"))

C23_Witness ==
  /\ sres.op = "EnsureBucket"
  /\ sres.err = "ok"
  /\ sres.create = "none"
  /\ sres.prev = <<"EnsureBucket", "ok", "ok">>
  /\ nsop = 2
\* C24: round trip: for every list of entries, after its gzipped JSON was
\* stored under a key with PutObject, GetObjectLogs of the key returns the
\* same entries in the same order with equal fields.
C24_BatchRoundTrip ==
  \A es \in EntryLists :
    ( /\ sres.op = "UploadsContent"
      /\ sres.key \in Keys
      /\ batcherOn
      /\ ~sres.fault
      /\ bucket = "mine"
      /\ objects[sres.key] = EncodeBatch(es) )
    => /\ sres.err = "ok"
       /\ sres.entries = es
\* the text is a JSON array whose items are objects
IsEntryArray(doc) ==
  /\ doc.kind = "array"
  /\ \A i \in 1..Len(doc.items) : doc.items[i].kind = "object"

\* C25: GetObjectLogs returns an error and no entries whenever the download
\* fails, the object is not valid gzip or the decompressed bytes are not a
\* JSON array of entries, and GET /uploads/content then answers 500.
C25_CorruptObjectRejected ==
  ( /\ sres.op = "UploadsContent"
    /\ sres.key \in Keys
    /\ batcherOn
    /\ \/ sres.fault
       \/ bucket # "mine"
       \/ objects[sres.key].gz # "ok"
       \/ ~IsEntryArray(objects[sres.key].doc) )
  => /\ sres.err # "ok"
     /\ sres.entries = <<>>
     /\ sres.status = 500

\* C26: a CreateInput whose type has no registered factory is answered 400
\* by the Registry.Create step, after InputRepo.Create: the row is in the
\* store with the request's type and configuration and desired_state
\* RUNNING, and the Instance Map has no entry for its id.
C26_UnknownTypePersistedThen400 ==
  \A p \in Procs :
     (/\ pc[p] = "idle"
      /\ req[p].op = "create"
      /\ req[p].type \notin Registered \cup {""})
     => /\ resp[p].status = 400
        /\ LET id == nextId - 1
           IN /\ id \in DOMAIN store
              /\ store[id].type = req[p].type
              /\ store[id].cfg = CreateCfg(req[p])
              /\ store[id].desired_state = "RUNNING"
              /\ id \notin DOMAIN Instances

C26_Witness ==
  /\ Done(SeqProc, "create", 400)
  /\ req[SeqProc].type = "syslog"
  /\ (nextId - 1) \in DOMAIN store
  /\ store[nextId - 1].type = "syslog"
  /\ (nextId - 1) \notin DOMAIN Instances

\* the type names and configurations the registry is asked about
RegistryNames == ReqTypes \cup {"gelf"}
RegistryConfigs ==
  {EmptyCfg} \cup {Put(EmptyCfg, "listen", l) : l \in ReqListens \cup {Blank}}
             \cup {CreateCfg(r) : r \in CreateReqs(ReqTypes, ReqListens)}

\* C27: for a type name without a registered factory Registry.ValidateConfig
\* returns no error whatever the configuration, and Registry.Create returns
\* the unknown-type error and no instance; for a registered name both return
\* what that factory returns. In CreateInput an unregistered type therefore
\* passes validation, and its Registry.Create step starts no instance.
C27_RegistryDispatch ==
  /\ [](\A name \in RegistryNames, cfg \in RegistryConfigs :
          IF name \in Registered
          THEN /\ ValidateConfig(name, cfg) = FactoryValidateConfig(cfg)
               /\ RegistryCreate(name, cfg) = FactoryCreate(cfg)
          ELSE /\ ValidateConfig(name, cfg) = "ok"
               /\ RegistryCreate(name, cfg) = "unknown input type")
  /\ [][\A p \in Procs :
          /\ (pc[p] = "idle" /\ req'[p].op = "create" /\ nreq' = nreq + 1
              /\ req'[p].type \notin Registered \cup {""})
             => pc'[p] = "c_check"
          /\ (pc[p] = "c_runtime" /\ pc'[p] # "c_runtime")
             => IF req[p].type \in Registered
                THEN (FactoryCreate(loc[p].cfg) = "ok") <=> (Len(insts') = Len(insts) + 1)
                ELSE insts' = insts /\ Instances' = Instances /\ resp'[p].status = 400]_vars

C27_Witness ==
  /\ Done(SeqProc, "create", 400)
  /\ req[SeqProc].type \notin Registered \cup {""}
  /\ (nextId - 1) \in DOMAIN store
  /\ store[nextId - 1].cfg \in RegistryConfigs
  /\ insts = <<>>

\* the value the request gives key k: the convenience field when non-empty,
\* otherwise the entry of the config object
UpdateHas(r, k) ==
  \/ k = "listen" /\ r.listen # EmptyStr
  \/ k = "description" /\ r.description # EmptyStr
  \/ Has(r.config, k)

UpdateValue(r, k) ==
  IF k = "listen" /\ r.listen # EmptyStr THEN r.listen
  ELSE IF k = "description" /\ r.description # EmptyStr THEN r.description
  ELSE r.config[k]

\* C28: UpdateInput merges the configuration key by key. In the row it
\* persists every key the update carries (a key of the config object, or
\* listen or description given non-empty as a field) has the update's value,
\* and every key of the row's previous configuration that the update does
\* not carry has its previous value.
C28_UpdateMergesKeys ==
  [][\A p \in Procs :
        (pc[p] = "u_persist" /\ pc'[p] # "u_persist")
        => LET id == loc[p].in.id
               old == store[id].cfg
               new == store'[id].cfg
           IN /\ id \in DOMAIN store /\ id \in DOMAIN store'
              /\ \A k \in DOMAIN old \cup DOMAIN new \cup DOMAIN req[p].config
                                    \cup {"listen", "description"} :
                    IF UpdateHas(req[p], k)
                    THEN Has(new, k) /\ new[k] = UpdateValue(req[p], k)
                    ELSE Has(old, k) => (Has(new, k) /\ new[k] = old[k])]_vars

\* a row that had a description keeps it and its base_path while its listen
\* is replaced and a new key is added
C28_Witness ==
  \E id \in DOMAIN store :
     /\ pc[SeqProc] = "u_runtime"
     /\ loc[SeqProc].in.id = id
     /\ req[SeqProc].listen = EmptyStr
     /\ req[SeqProc].config = Put(EmptyCfg, "listen", L1)
     /\ store[id].cfg = Put(Put(HttpCfg(L1), "description", D0), "base_path", Ingest)

\* C29: an UpdateInput or DeleteInput that names an id without a row in the
\* store is answered 404 at once, and leaves the store, the Instance Map
\* and every instance (its server and listener) as they were.
C29_MissingIdNotFound ==
  [][(/\ pc[SeqProc] = "idle"
      /\ nreq' = nreq + 1
      /\ req'[SeqProc].op \in {"update", "delete"}
      /\ req'[SeqProc].id \notin DOMAIN store)
     => /\ pc'[SeqProc] = "idle"
        /\ resp'[SeqProc].status = 404
        /\ store' = store
        /\ Instances' = Instances
        /\ insts' = insts]_vars

C29_Witness ==
  /\ Done(SeqProc, "update", 404)
  /\ req[SeqProc].id \in KnownIds \ DOMAIN store
  /\ req[SeqProc].listen = L2

C29_WitnessDelete ==
  /\ Done(SeqProc, "delete", 404)
  /\ req[SeqProc].id \in KnownIds \ DOMAIN store

\* C30: a request during which a repository call (List, GetByID, Create,
\* Update, Delete) failed is answered at once with status 500.
C30_StoreFailureIsInternal ==
  \A p \in Procs :
     dbErr[p] # "ok" => (pc[p] = "idle" /\ resp[p].status = 500)

\* the same for the calls other than GetByID
StoreFailureIsInternal_ExceptGetByID ==
  \A p \in Procs :
     dbErr[p] \notin {"ok", "GetByID"} => (pc[p] = "idle" /\ resp[p].status = 500)

\* ^([^:]*):\d{1,5}$
MatchesListenPattern(s) ==
  \E i \in 1..Len(s) :
     /\ s[i] = ":"
     /\ \A j \in 1..(i - 1) : s[j] # ":"
     /\ Len(s) - i \in 1..5
     /\ \A j \in (i + 1)..Len(s) : s[j] \in Digits

\* C31: the listen of every http row in the store matches
\* ^([^:]*):\d{1,5}$, is the string Factory.ValidateConfig validated (the
\* trimmed one), and is the address of the instance the Instance Map holds
\* for the row.
C31_ListenPersistedAsValidated ==
  \A id \in DOMAIN store :
     (store[id].type = "http" /\ Has(store[id].cfg, "listen"))
     => LET listen == store[id].cfg["listen"]
        IN /\ MatchesListenPattern(listen)
           /\ listen = TrimSpace(listen)
           /\ id \in DOMAIN Instances
              => insts[Instances[id]].listenAddr = listen

\* the part that holds: the instance is given the string that was persisted
ListenBoundAsPersisted ==
  \A id \in DOMAIN store \cap DOMAIN Instances :
     insts[Instances[id]].listenAddr = GetStr(store[id].cfg, "listen")

\* a row persisted with a listen that is not the string validated
PaddedListenPersisted ==
  \E id \in DOMAIN store :
     /\ store[id].cfg = HttpCfg(LPadded)
     /\ id \in DOMAIN Instances

\* C32: a row created without a title has the title "input-" followed by
\* the first 8 characters of its own id.
C32_TitleFromOwnId ==
  \A id \in DOMAIN store :
     store[id].title.text = InputDash => store[id].title.first8 = First8(id)

\* the part that holds: a row created without a title gets a synthesized one
TitleSynthesized ==
  \A id \in DOMAIN store :
     /\ store[id].title.text \in {InputDash, TitleText}
     /\ store[id].title.text = InputDash => store[id].title.first8 = First8(id - 1)

\* the path of the input Factory.Create builds for a row with the default base_path
OwnListenerPath == FactoryInputPath(HttpCfg(L1))

\* C33: an http input on its own listener serves its normalized base_path
\* only: a request to another path is not accepted (no 202) and none of its
\* bytes is inserted into the buffer.
C33_OnlyBasePathServed ==
  /\ OwnListenerPath = Ingest
  /\ \A c \in Conns :
        hpc[c] # "idle" => hreq[c].path = OwnListenerPath
  /\ \A k \in 1..Len(logs) :
        logs[k].bytes.fmt = "json" => logs[k].bytes.obj.raw_request.path = OwnListenerPath

\* a request to another path answered 202 with its record in the buffer
OtherPathAccepted ==
  \E c \in Conns, k \in 1..Len(logs) :
     /\ hpc[c] = "idle" /\ hresp[c] = 202
     /\ logs[k].bytes.fmt = "json"
     /\ logs[k].bytes.obj.raw_request.path = OtherPath

C34_WitnessAtLimit ==
  /\ hpc["c1"] = "insert_raw"
  /\ Len(hreq["c1"].body) = 65536
  /\ hloc["c1"].rawLogJSON.obj.raw_request.body = hreq["c1"].body

\* Stop has been called on the instance after Start
Stopped(i) == insts[i].server /\ insts[i].inShutdown

\* C35: Input.Stop is idempotent. A second call changes nothing, a call on
\* an instance that was never started changes nothing, and once Stop has
\* been called on a started instance its listener is closed.
C35_StopIdempotent ==
  \A i \in 1..Len(insts) :
     /\ InputStop(InputStop(insts[i])) = InputStop(insts[i])
     /\ ~insts[i].server => InputStop(insts[i]) = insts[i]
     /\ Stopped(i) => ~Listening(i)

\* the part that holds: repeated calls change nothing, a stopped instance
\* never serves a request
StopIdempotentOnState ==
  \A i \in 1..Len(insts) :
     /\ InputStop(InputStop(insts[i])) = InputStop(insts[i])
     /\ ~insts[i].server => InputStop(insts[i]) = insts[i]
     /\ Stopped(i) => insts[i].g # "serving"

\* the instances built for input id, oldest first
InstancesOf(id) == {i \in 1..Len(insts) : insts[i].owner = id}

Rejected == {400, 409, 500}

\* C36: an UpdateInput answered 400, 409 or 500 leaves the input as it was:
\* the row is the one GetByID read, and the instance the input had is still
\* in the Instance Map and has not been stopped.
C36_RejectedUpdateKeepsInput ==
  /\ [](\A p \in Procs :
          (Done(p, "update", 400) \/ Done(p, "update", 409) \/ Done(p, "update", 500))
          => \A i \in InstancesOf(req[p].id) :
                (\A j \in InstancesOf(req[p].id) : j <= i)
                => /\ ~insts[i].inShutdown
                   /\ req[p].id \in DOMAIN Instances
                   /\ Instances[req[p].id] = i)
  /\ [][\A p \in Procs :
          (/\ pc[p] \in {"u_check", "u_persist", "u_runtime"}
           /\ pc'[p] = "idle"
           /\ resp'[p].status \in Rejected)
          => store'[loc[p].in.id] = store[loc[p].in.id]]_vars

\* a rejected update after which the input has no instance in the map
RejectedUpdateStopsInstance ==
  \E p \in Procs :
     /\ Done(p, "update", 400)
     /\ req[p].id \in DOMAIN store
     /\ store[req[p].id].type = "http"
     /\ InstancesOf(req[p].id) # {}
     /\ req[p].id \notin DOMAIN Instances

\* C37: under every interleaving of CreateInput, UpdateInput and
\* DeleteInput each entry of the Instance Map belongs to an input whose row
\* is in the store.
C37_MapEntriesHaveRows ==
  DOMAIN Instances \subseteq DOMAIN store

\* an UpdateInput and a DeleteInput of the same id have both answered 200 and
\* the deleted input has an instance in the map
UpdateOutlivesDelete ==
  \E p \in Procs, q \in Procs :
     /\ Done(p, "update", 200) /\ Done(q, "delete", 200)
     /\ req[p].id = req[q].id
     /\ req[p].id \notin DOMAIN store
     /\ req[p].id \in DOMAIN Instances

\* an instance whose Start has run and whose Stop has not
Live(i) == insts[i].server /\ ~insts[i].inShutdown

\* an instance a handler or RestoreInputs has started and is about to put into
\* the map
InHand(i) ==
  \/ \E p \in Procs : pc[p] \in {"c_lock", "c_insert", "u_lock2", "u_insert"} /\ loc[p].run = i
  \/ phase = "restore" /\ InstancesMu = Restorer /\ i = Len(insts)

\* C38: no listener is leaked: every instance that was started and not
\* stopped, and is not still in the hands of the request that started it, is
\* the value of exactly one Instance Map entry, so an input id has at most one
\* such instance.
C38_NoLeakedInstance ==
  /\ \A i \in 1..Len(insts) :
        (Live(i) /\ ~InHand(i))
        => Cardinality({id \in DOMAIN Instances : Instances[id] = i}) = 1
  /\ \A i \in 1..Len(insts), j \in 1..Len(insts) :
        (/\ Live(i) /\ ~InHand(i) /\ Live(j) /\ ~InHand(j)
         /\ insts[i].owner = insts[j].owner)
        => i = j

\* two UpdateInput requests for one id have both answered 200 and two
\* instances of that input are live
OverlappingUpdatesLeak ==
  \E p \in Procs, q \in Procs :
     /\ p # q
     /\ Done(p, "update", 200) /\ Done(q, "update", 200)
     /\ req[p].id = req[q].id
     /\ Cardinality({i \in InstancesOf(req[p].id) : Live(i)}) = 2

\* C39: after a clean Server.Shutdown every payload an input listener has
\* acknowledged with 202 is part of an upload attempt, and no payload is
\* inserted into the batcher once the final drain has taken the queue.
C39_AcknowledgedIsUploaded ==
  /\ []((bpc = "stopped" /\ \A c \in Conns : hpc[c] = "idle")
          => (1..nins) \subseteq Attempted)
  /\ [][wake = "stop" => nins' = nins]_vars

\* the batcher has stopped and a payload acknowledged with 202 is still in
\* the queue
AcknowledgedAfterDrain ==
  /\ bpc = "stopped"
  /\ hpc["c1"] = "idle" /\ hresp["c1"] = 202
  /\ queue # <<>>
  /\ Queued \cap Attempted = {}

\* C40: ListInputs reports state RUNNING for an input only if the input has a
\* started instance in the Instance Map at the time of the listing.
C40_RunningMeansInstance ==
  [][\A p \in Procs :
       (pc[p] = "l_read" /\ pc'[p] = "idle")
       => \A id \in DOMAIN resp'[p].views :
             resp'[p].views[id] = "RUNNING"
             => /\ id \in DOMAIN Instances
                /\ Instances[id] \in 1..Len(insts)
                /\ insts[Instances[id]].server]_vars

\* a listing reports RUNNING for an input that has no instance in the map
RunningWithoutInstance ==
  \E p \in Procs, id \in DOMAIN store :
     /\ Done(p, "list", 200)
     /\ id \in DOMAIN resp[p].views
     /\ resp[p].views[id] = "RUNNING"
     /\ id \notin DOMAIN Instances
     /\ store[id].type = "http"

====
